---------------------------- MODULE Spec2Model ----------------------------
(***************************************************************************)
(* Smart-farm evaluation and control engine (yaong832/farmui).             *)
(*                                                                         *)
(* Numbers.  Python floats are modelled as exact fixed-point integers:     *)
(* the real number r is the integer r * Unit.  Every reading of the model  *)
(* is a multiple of 0.01 and every band boundary a whole number, so that   *)
(* (max - min) * 0.05, (min + max) / 2 and base * 0.95 are exact.  The     *)
(* only inexact step of the code, round(offset, 1), is modelled by Round1  *)
(* with an explicit tie input, because a decimal tie is resolved by the    *)
(* binary representation of the float and can go either way.               *)
(*                                                                         *)
(* Text.  A sensor value given as text is a sequence of one-character      *)
(* strings ("degC" stands for the one character U+2103).  A sensor label   *)
(* and a crop name are sequences of tokens; Korean tokens are romanised:   *)
(*   toyang = soil, jindong = vibration, chaegwang = light,                *)
(*   amnyeok = pressure, seupdo = humidity, ondo = temperature,            *)
(*   sagwa = apple (crop), gibon = default (crop), singyu = a new crop.    *)
(* "x in name" of the code is token membership.                            *)
(***************************************************************************)
EXTENDS Integers, Sequences, FiniteSets, TLC

VARIABLES
    registry,   \* crop_config.CROP_OPTIMAL_CONDITIONS, in insertion order
    request,    \* the arguments of the last call
    response,   \* what the last call returned (or that it raised)
    sensor_data_list,  \* DataManager.sensor_data_list (memory mode)
    farm_info_dict,    \* DataManager.farm_info_dict['current_farm']
    trainer,    \* app.ml_trainer: scaler, the two models and is_trained
    model_dir,  \* the files of the model directory
    training,   \* where load_models / train_models stands, and the run count
    handlers    \* the add_new_crop calls in flight, one per server thread

\* the state the handlers of the control and the analytics routes do not
\* write
Backend == <<sensor_data_list, farm_info_dict, trainer, model_dir, training, handlers>>

vars == <<registry, request, response, Backend>>

(***************************************************************************)
(* Fixed-point scale and small helpers                                     *)
(***************************************************************************)
Unit == 10^4

Abs(x) == IF x < 0 THEN -x ELSE x
Max2(a, b) == IF a > b THEN a ELSE b
Min2(a, b) == IF a < b THEN a ELSE b

RECURSIVE SelectSeq2(_, _)
\* the elements of s, in order, that are members of the set keep
SelectSeq2(s, keep) ==
    IF s = <<>> THEN <<>>
    ELSE IF Head(s) \in keep THEN <<Head(s)>> \o SelectSeq2(Tail(s), keep)
    ELSE SelectSeq2(Tail(s), keep)

RECURSIVE RemoveAll(_, _)
\* str.replace(c, ''): s without every occurrence of the character c
RemoveAll(s, c) ==
    IF s = <<>> THEN <<>>
    ELSE IF Head(s) = c THEN RemoveAll(Tail(s), c)
    ELSE <<Head(s)>> \o RemoveAll(Tail(s), c)

(***************************************************************************)
(* JSON values of a payload                                                *)
(***************************************************************************)
Num(n) == [kind |-> "num", n |-> n, s |-> <<>>]
Str(s) == [kind |-> "str", n |-> 0, s |-> s]
None == [kind |-> "none", n |-> 0, s |-> <<>>]
\* a non-empty JSON list or object: neither a number nor text
Obj == [kind |-> "obj", n |-> 0, s |-> <<>>]
\* the key is not in the dict
Absent == [kind |-> "absent", n |-> 0, s |-> <<>>]

Digits == {"0", "1", "2", "3", "4", "5", "6", "7", "8", "9"}

DigitVal(c) ==
    CASE c = "0" -> 0 [] c = "1" -> 1 [] c = "2" -> 2 [] c = "3" -> 3
      [] c = "4" -> 4 [] c = "5" -> 5 [] c = "6" -> 6 [] c = "7" -> 7
      [] c = "8" -> 8 [] c = "9" -> 9

RECURSIVE DigitsVal(_)
\* the number a sequence of digits writes
DigitsVal(ds) ==
    IF ds = <<>> THEN 0
    ELSE 10 * DigitsVal(SubSeq(ds, 1, Len(ds) - 1)) + DigitVal(ds[Len(ds)])

RECURSIVE StripSpaces(_)
StripSpaces(s) ==
    IF s = <<>> THEN <<>>
    ELSE IF Head(s) = " " THEN StripSpaces(Tail(s))
    ELSE IF s[Len(s)] = " " THEN StripSpaces(SubSeq(s, 1, Len(s) - 1))
    ELSE s

\* the body of a number text is digits with at most one '.', and a digit
WellFormed(body) ==
    /\ \A i \in 1..Len(body) : body[i] \in Digits \cup {"."}
    /\ Cardinality({i \in 1..Len(body) : body[i] = "."}) <= 1
    /\ \E i \in 1..Len(body) : body[i] \in Digits

\* where the '.' of a well-formed body is, Len + 1 if it has none
DotIndex(body) ==
    IF \E i \in 1..Len(body) : body[i] = "."
    THEN CHOOSE i \in 1..Len(body) : body[i] = "."
    ELSE Len(body) + 1

ParseAt(body, sign, dot) ==
    [ok |-> TRUE,
     n |-> sign * (DigitsVal(SubSeq(body, 1, dot - 1)) * Unit
                   + (DigitsVal(SubSeq(body, dot + 1, Len(body))) * Unit)
                       \div (10 ^ Max2(0, Len(body) - dot)))]

ParseBody(body, sign) ==
    IF WellFormed(body) THEN ParseAt(body, sign, DotIndex(body))
    ELSE [ok |-> FALSE, n |-> 0]

ParseStripped(t) ==
    ParseBody(IF t # <<>> /\ Head(t) = "-" THEN Tail(t) ELSE t,
              IF t # <<>> /\ Head(t) = "-" THEN -1 ELSE 1)

\* Python's float(text): [ok, n]; ok = FALSE is ValueError.  Accepted here:
\* optional surrounding blanks, optional '-', digits with at most one '.',
\* at least one digit.
PyFloat(text) == ParseStripped(StripSpaces(text))

(***************************************************************************)
(* crop_config: the threshold registry                                     *)
(***************************************************************************)
Channels == {"humidity", "temperature", "light", "soil_moisture"}

BandOf(omin, omax, amin, amax, cmin, cmax) ==
    [optimal_min |-> omin, optimal_max |-> omax,
     acceptable_min |-> amin, acceptable_max |-> amax,
     critical_min |-> cmin, critical_max |-> cmax]

Gibon == <<"gibon">>      \* the default entry
Sagwa == <<"sa", "gwa">>  \* apple
Tomato == <<"tomato">>

\* The entries of the table that the model keeps: apple (the crop farm 1
\* falls back to), tomato and the default entry, in the table's order.
CROP_OPTIMAL_CONDITIONS ==
    << [name |-> Sagwa, conditions |->
          [humidity |-> BandOf(60, 80, 30, 80, 20, 90),
           temperature |-> BandOf(15, 25, 0, 35, -5, 40),
           light |-> BandOf(60, 80, 50, 80, 30, 100),
           soil_moisture |-> BandOf(40, 60, 20, 60, 10, 80),
           base_production_per_tree |-> 50]],
       [name |-> Tomato, conditions |->
          [humidity |-> BandOf(50, 70, 40, 80, 30, 90),
           temperature |-> BandOf(20, 25, 15, 30, 10, 35),
           light |-> BandOf(70, 90, 60, 95, 40, 100),
           soil_moisture |-> BandOf(50, 70, 40, 80, 20, 90),
           base_production_per_tree |-> 10]],
       [name |-> Gibon, conditions |->
          [humidity |-> BandOf(50, 70, 30, 80, 20, 90),
           temperature |-> BandOf(18, 25, 10, 30, 5, 35),
           light |-> BandOf(60, 80, 50, 85, 30, 100),
           soil_moisture |-> BandOf(40, 60, 30, 70, 20, 80),
           base_production_per_tree |-> 10]] >>

RegistryNames(reg) == {reg[i].name : i \in 1..Len(reg)}

\* the index of the entry called name, 0 if there is none
RegistryIndex(reg, name) ==
    IF name \in RegistryNames(reg)
    THEN CHOOSE i \in 1..Len(reg) : reg[i].name = name
    ELSE 0

\* <<conditions, found name, exists>> of entry i; the default entry
\* answers for i = 0, the crop being unknown
RegistryAnswer(reg, i, default) ==
    IF i = 0 THEN <<reg[default].conditions, Gibon, FALSE>>
    ELSE <<reg[i].conditions, reg[i].name, TRUE>>

\* a in b for two texts: a is a contiguous part of b
IsSubstr(a, b) ==
    \E i \in 0..(Len(b) - Len(a)) : SubSeq(b, i + 1, i + Len(a)) = a

\* the first entry, in the table's order, whose name contains clean or is
\* contained in it (the default entry never matches); 0 if none
PartialMatch(reg, clean) ==
    IF \E i \in 1..Len(reg) :
           /\ reg[i].name # Gibon
           /\ (IsSubstr(reg[i].name, clean) \/ IsSubstr(clean, reg[i].name))
    THEN CHOOSE i \in 1..Len(reg) :
           /\ reg[i].name # Gibon
           /\ (IsSubstr(reg[i].name, clean) \/ IsSubstr(clean, reg[i].name))
           /\ \A j \in 1..(i - 1) :
                ~(/\ reg[j].name # Gibon
                  /\ (IsSubstr(reg[j].name, clean) \/ IsSubstr(clean, reg[j].name)))
    ELSE 0

\* the entry get_crop_conditions answers with for a stripped name: none
\* for a blank name, the exact match, else the first partial match
CropIndex(reg, clean) ==
    IF clean = <<>> THEN 0
    ELSE IF clean \in RegistryNames(reg) /\ clean # Gibon
    THEN RegistryIndex(reg, clean)
    ELSE PartialMatch(reg, clean)

\* crop_config.get_crop_conditions: <<conditions, found name, exists>>
get_crop_conditions(reg, crop_name) ==
    RegistryAnswer(reg, CropIndex(reg, StripSpaces(crop_name)),
                   RegistryIndex(reg, Gibon))

\* crop_config.add_crop
add_crop(reg, crop_name, conditions) ==
    IF crop_name \in RegistryNames(reg)
    THEN [i \in 1..Len(reg) |->
            IF reg[i].name = crop_name
            THEN [name |-> crop_name, conditions |-> conditions]
            ELSE reg[i]]
    ELSE Append(reg, [name |-> crop_name, conditions |-> conditions])

\* dict.get(key, default) on a dict modelled as a function
GetOr(d, key, default) == IF key \in DOMAIN d THEN d[key] ELSE default

EmptyDict == [k \in {} |-> 0]

\* one channel's band of app.add_new_crop: each field the request leaves
\* out takes the handler's default
NewBand(ch, omin, omax, amin, amax, cmin, cmax) ==
    BandOf(GetOr(ch, "optimal_min", omin), GetOr(ch, "optimal_max", omax),
           GetOr(ch, "acceptable_min", amin), GetOr(ch, "acceptable_max", amax),
           GetOr(ch, "critical_min", cmin), GetOr(ch, "critical_max", cmax))

\* the conditions app.add_new_crop builds from the request body
NewCropConditions(data) ==
    [humidity |-> NewBand(GetOr(data, "humidity", EmptyDict), 50, 70, 30, 80, 20, 90),
     temperature |-> NewBand(GetOr(data, "temperature", EmptyDict), 20, 25, 15, 30, 10, 35),
     light |-> NewBand(GetOr(data, "light", EmptyDict), 60, 80, 50, 80, 30, 100),
     soil_moisture |-> NewBand(GetOr(data, "soil_moisture", EmptyDict), 50, 70, 40, 80, 20, 90),
     \* data.get('base_production', 50) of a body that holds no base_production
     base_production_per_tree |-> 50]

\* AIAnalysis._get_crop_conditions.  farm is what the data store answers for
\* the farm: store_fails (get_farm_data raises), else the farm's id and its
\* stored cropName, which is any JSON value the client sent.  A cropName
\* that is not text has no strip(); every failure inside is caught and
\* answered with the default entry.
GetCropConditions(reg, farm) ==
    IF farm.store_fails \/ farm.crop_name.kind \in {"num", "obj"}
    THEN RegistryAnswer(reg, 0, RegistryIndex(reg, Gibon))
    ELSE get_crop_conditions(reg,
            IF farm.crop_name.kind = "str" /\ StripSpaces(farm.crop_name.s) # <<>>
            THEN farm.crop_name.s
            ELSE IF farm.farm_id = 1 THEN Sagwa ELSE Gibon)

(***************************************************************************)
(* AIAnalysis.generate_control_commands                                    *)
(***************************************************************************)
\* float(cleaned) if cleaned else default, ValueError giving default
FloatOr(parsed, default) == IF parsed.ok THEN parsed.n ELSE default

\* safe_float (the nested helper): never raises
safe_float(value, default) ==
    CASE value.kind = "none" -> default
      [] value.kind = "str" ->
            IF SelectSeq2(value.s, Digits \cup {".", "-"}) = <<>> THEN default
            ELSE FloatOr(PyFloat(SelectSeq2(value.s, Digits \cup {".", "-"})), default)
      [] value.kind = "num" -> value.n
      [] OTHER -> default      \* float(list) is TypeError

\* bool(value) of Python, for the "or" of the extraction pass
Truthy(value) ==
    CASE value.kind = "num" -> value.n # 0
      [] value.kind = "str" -> value.s # <<>>
      [] value.kind = "obj" -> TRUE
      [] OTHER -> FALSE

\* name.lower(), token by token
LowerTok(t) ==
    CASE t = "Soil" -> "soil" [] t = "Light" -> "light"
      [] t = "Humidity" -> "humidity" [] t = "Temperature" -> "temperature"
      [] OTHER -> t

NameLower(name) == [i \in 1..Len(name) |-> LowerTok(name[i])]

ContainsAny(name_lower, keywords) ==
    \E i \in 1..Len(name_lower) : name_lower[i] \in keywords

SoilKeywords == {"toyang", "soil", "jindong", "vibration"}
LightKeywords == {"chaegwang", "light", "amnyeok", "pressure"}
HumidityKeywords == {"seupdo", "humidity"}
TemperatureKeywords == {"ondo", "temperature"}

\* the if/elif chain of lines 786-802 on the lowered name
ChannelOfLower(n) ==
    IF ContainsAny(n, SoilKeywords) THEN "soil_moisture"
    ELSE IF ContainsAny(n, LightKeywords) THEN "light"
    ELSE IF ContainsAny(n, HumidityKeywords) THEN "humidity"
    ELSE IF ContainsAny(n, TemperatureKeywords) THEN "temperature"
    ELSE "unknown"

\* the channel an entry feeds in the extraction pass, "unknown" when no
\* keyword matches
ExtractChannel(name) == ChannelOfLower(NameLower(name))

\* the value the extraction pass reads from an entry:
\* sensor.get('rawValue') or sensor.get('value', 0.0), then safe_float
ExtractValue(sensor) ==
    safe_float(IF Truthy(sensor.rawValue) THEN sensor.rawValue
               ELSE IF sensor.value.kind = "absent" THEN Num(0)
               ELSE sensor.value,
               0)

\* sensors_dict[ch] = v, unless the label matched no channel
PutChannel(dict, ch, v) ==
    IF ch = "unknown" THEN dict
    ELSE [k \in (DOMAIN dict) \cup {ch} |-> IF k = ch THEN v ELSE dict[k]]

RECURSIVE ExtractSensors(_, _)
\* the loop of lines 774-802 over the 'sensors' list: a later entry of a
\* channel overwrites an earlier one
ExtractSensors(sensors, dict) ==
    IF sensors = <<>> THEN dict
    ELSE ExtractSensors(Tail(sensors),
                        PutChannel(dict, ExtractChannel(Head(sensors).name),
                                   ExtractValue(Head(sensors))))

\* sensors_dict before validation (lines 770-810)
SensorsDict(sensor_data) ==
    IF sensor_data.has_sensors
    THEN ExtractSensors(sensor_data.sensors, EmptyDict)
    ELSE [k \in Channels |->
            safe_float(GetOr(sensor_data.fields, k, Num(0)), 0)]

HumidityMin == 0
HumidityMax == 100
TemperatureMin == -10
TemperatureMax == 50
LightMin == 0
LightMax == 100
SoilMoistureMin == 0
SoilMoistureMax == 100

\* valid_ranges, in Units
ValidRange(key) ==
    CASE key = "humidity" -> <<HumidityMin * Unit, HumidityMax * Unit>>
      [] key = "temperature" -> <<TemperatureMin * Unit, TemperatureMax * Unit>>
      [] key = "light" -> <<LightMin * Unit, LightMax * Unit>>
      [] key = "soil_moisture" -> <<SoilMoistureMin * Unit, SoilMoistureMax * Unit>>

\* max(min_val, min(max_val, value))
ClipTo(range, value) == Max2(range[1], Min2(range[2], value))

Clip(key, value) == ClipTo(ValidRange(key), value)

\* the validation loop of lines 820-830
ValidateSensors(dict) == [k \in DOMAIN dict |-> Clip(k, dict[k])]

(***************************************************************************)
(* The learned predictor as generate_control_commands sees it.             *)
(* ml_trainer is NoTrainer (None) or an object with is_trained, whose      *)
(* predict_anomaly raises or returns a dict; result maps the keys the      *)
(* dict holds ("is_anomaly", "confidence") to their values.  Confidences   *)
(* are in percent.                                                         *)
(***************************************************************************)
NoTrainer == [present |-> FALSE, is_trained |-> FALSE, raises |-> FALSE,
              result |-> EmptyDict]

Trainer(trained, raises, result) ==
    [present |-> TRUE, is_trained |-> trained, raises |-> raises,
     result |-> result]

DefaultConfidence == 50
HighConfidence == 70
LowConfidence == 50

\* lines 832-847: <<ml_anomaly_prediction, ml_confidence>>;
\* ml_anomaly_prediction is "None", "True" or "False"
MlPrediction(ml_trainer) ==
    IF ml_trainer.present /\ ml_trainer.is_trained /\ ~ml_trainer.raises
    THEN <<IF GetOr(ml_trainer.result, "is_anomaly", FALSE) THEN "True" ELSE "False",
           GetOr(ml_trainer.result, "confidence", DefaultConfidence)>>
    ELSE <<"None", DefaultConfidence>>

\* the features handed to predict_anomaly (lines 838-841), or <<>> when the
\* predictor is not called
MlFeatures(ml_trainer, dict) ==
    IF ml_trainer.present /\ ml_trainer.is_trained
    THEN <<GetOr(dict, "humidity", 50 * Unit), GetOr(dict, "temperature", 20 * Unit),
           GetOr(dict, "light", 50 * Unit), GetOr(dict, "soil_moisture", 50 * Unit)>>
    ELSE <<>>

FullFactor == 100
LikelyFactor == 95
RuleFactor == 90

\* the factor as the specification words it: by the confidence alone,
\* whether or not the predictor flags the reading
MagnitudeFactorByConfidence(ml_anomaly, ml_confidence) ==
    IF ml_confidence > HighConfidence THEN FullFactor
    ELSE IF ml_confidence > LowConfidence THEN LikelyFactor
    ELSE RuleFactor

\* lines 960-971 and 1008-1019: the share of base_offset applied, in percent
MagnitudeFactor(ml_anomaly, ml_confidence) ==
    IF ml_anomaly = "True" /\ ml_confidence > HighConfidence THEN FullFactor
    ELSE IF ml_anomaly = "True" /\ ml_confidence > LowConfidence THEN LikelyFactor
    ELSE RuleFactor

\* the ml_info part of the reason text
MlInfo(ml_trainer, ml_anomaly, ml_confidence) ==
    IF ml_anomaly = "True" /\ ml_confidence > HighConfidence THEN "ml_anomaly_detected"
    ELSE IF ml_anomaly = "True" /\ ml_confidence > LowConfidence THEN "ml_anomaly_possible"
    ELSE IF ~ml_trainer.present THEN "rule_based"
    ELSE "ml_normal"

\* x >= 0 rounded to a multiple of step; tie_up says which way an exact
\* tie goes
RoundStep(x, step, tie_up) ==
    IF 2 * (x % step) < step THEN (x \div step) * step
    ELSE IF 2 * (x % step) > step THEN (x \div step + 1) * step
    ELSE IF tie_up THEN (x \div step + 1) * step
    ELSE (x \div step) * step

\* round(x, 1) for x >= 0 in Units; the float decides an exact decimal tie
Round1(x, tie_up) == RoundStep(x, Unit \div 10, tie_up)

(***************************************************************************)
(* The per-channel pass (lines 851-1046)                                   *)
(***************************************************************************)
SensorKeys == <<"humidity", "temperature", "light", "soil_moisture">>

\* sensor_configs: the display name and the two actuators of a channel
\* (gaseupgi = humidifier, hwangi = ventilation, heater, naengbang =
\* cooling, LED on / LED off, geupsu = irrigation, baesu = drainage)
SensorName(key) ==
    CASE key = "humidity" -> "seupdo" [] key = "temperature" -> "ondo"
      [] key = "light" -> "chaegwang" [] key = "soil_moisture" -> "toyangseupdo"

ControlDevices(key) ==
    CASE key = "humidity" -> <<"gaseupgi", "hwangi">>
      [] key = "temperature" -> <<"heater", "naengbang">>
      [] key = "light" -> <<"LED", "LED_off">>
      [] key = "soil_moisture" -> <<"geupsu", "baesu">>

\* the if/elif chain of lines 873-903 on the lowered name
MatchesLower(n, sensor_key) ==
    CASE sensor_key = "soil_moisture" -> ContainsAny(n, SoilKeywords)
      [] sensor_key = "light" -> ContainsAny(n, LightKeywords)
      [] sensor_key = "humidity" ->
            /\ ContainsAny(n, HumidityKeywords)
            /\ ~ContainsAny(n, {"toyang", "amnyeok", "pressure"})
      [] sensor_key = "temperature" -> ContainsAny(n, TemperatureKeywords)

\* whether an entry is the one the per-channel pass takes for sensor_key
MatchesKey(name, sensor_key) == MatchesLower(NameLower(name), sensor_key)

\* sensor.get('rawValue', sensor.get('value', 0.0))
RawValue(sensor) ==
    IF sensor.rawValue.kind # "absent" THEN sensor.rawValue
    ELSE IF sensor.value.kind # "absent" THEN sensor.value
    ELSE Num(0)

\* float(text) outside any try: a failure is the ValueError leaving the call
FloatOrRaise(parsed) == [raised |-> ~parsed.ok, v |-> Num(parsed.n)]

\* text goes through float(text.replace('%', '').replace(degC, ''));
\* anything else is kept as it is.  [raised, v]
ParseRaw(raw) ==
    IF raw.kind = "str"
    THEN FloatOrRaise(PyFloat(RemoveAll(RemoveAll(raw.s, "%"), "degC")))
    ELSE [raised |-> FALSE, v |-> raw]

\* the value the per-channel pass reads from a matched entry
MatchedValue(sensor) == ParseRaw(RawValue(sensor))

\* the first entry of the list that matches sensor_key, 0 if none
FirstMatch(sensors, sensor_key) ==
    IF \E i \in 1..Len(sensors) : MatchesKey(sensors[i].name, sensor_key)
    THEN CHOOSE i \in 1..Len(sensors) :
            /\ MatchesKey(sensors[i].name, sensor_key)
            /\ \A j \in 1..(i - 1) : ~MatchesKey(sensors[j].name, sensor_key)
    ELSE 0

\* current_value after the search of lines 861-903: None when no entry
\* matched or the payload has no 'sensors' list
SearchedValue(sensors, i) ==
    IF i = 0 THEN [raised |-> FALSE, v |-> None] ELSE MatchedValue(sensors[i])

\* lines 909-917: float(current_value); TypeError gives 0.0
CoerceFloat(value) == IF value.kind = "num" THEN value.n ELSE 0

\* lines 905-917: None is replaced by sensors_dict.get(sensor_key, 0.0),
\* then the value is coerced
ResolveValue(m, dict, sensor_key) ==
    [raised |-> m.raised,
     value |-> CoerceFloat(IF m.v.kind = "none"
                           THEN Num(GetOr(dict, sensor_key, 0)) ELSE m.v)]

\* lines 861-917: the current value of a channel.  [raised, value]
CurrentValue(sensor_data, dict, sensor_key) ==
    ResolveValue(SearchedValue(sensor_data.sensors,
                               IF sensor_data.has_sensors
                               THEN FirstMatch(sensor_data.sensors, sensor_key)
                               ELSE 0),
                 dict, sensor_key)

\* line 919: "current_value == 0.0 and sensor_key not in sensors_dict and
\* current_value is None"; current_value is a float by then
SkipChannel(current_value, dict, sensor_key) ==
    current_value = 0 /\ sensor_key \notin DOMAIN dict /\ FALSE

\* line 937, times 100: tolerance = (optimal_max - optimal_min) * 0.05
Tolerance100(optimal_min, optimal_max) == (optimal_max - optimal_min) * 5

\* line 944: (optimal_min - tolerance) <= current_value <= (optimal_max + tolerance)
WithinTolerance(current_value, optimal_min, optimal_max) ==
    /\ 100 * optimal_min - Tolerance100(optimal_min, optimal_max) <= 100 * current_value
    /\ 100 * current_value <= 100 * optimal_max + Tolerance100(optimal_min, optimal_max)

\* a target at the upper end of the band instead of its middle
TargetAtMax(optimal_min, optimal_max) == optimal_max

\* (optimal_min + optimal_max) / 2
TargetValue(optimal_min, optimal_max) == (optimal_min + optimal_max) \div 2

\* base_offset * factor, rounded to one decimal
Offset(current_value, target_value, factor, tie_up) ==
    Round1((Abs(target_value - current_value) * factor) \div 100, tie_up)

\* lines 950 and 998: below optimal_min is 'increase', else above
\* optimal_max is 'decrease'
Action(current_value, optimal_min, optimal_max) ==
    IF current_value < optimal_min THEN "increase" ELSE "decrease"

\* control_devices[0] for 'increase', control_devices[1] for 'decrease'
Device(sensor_key, action) ==
    ControlDevices(sensor_key)[IF action = "increase" THEN 1 ELSE 2]

\* the dict appended at lines 973-996 and 1021-1044
Command(sensor_index, current_value, target_value, action, ml_trainer, ml, tie_up) ==
    [sensor_index |-> sensor_index,
     sensor_name |-> SensorName(SensorKeys[sensor_index]),
     current_value |-> current_value,
     target_value |-> target_value,
     action |-> action,
     offset |-> Offset(current_value, target_value,
                       MagnitudeFactor(ml[1], ml[2]), tie_up),
     device |-> Device(SensorKeys[sensor_index], action),
     ml_info |-> MlInfo(ml_trainer, ml[1], ml[2]),
     ml_anomaly |-> IF ml_trainer.present THEN ml[1] ELSE "None",
     ml_confidence |-> IF ml_trainer.present THEN ml[2] ELSE -1]

\* a generator in which a flagged reading overrides the hysteresis check
ChannelDecisionForced(sensor_index, current_value, dict, optimal_min, optimal_max, ml_trainer, ml, tie_up) ==
    IF SkipChannel(current_value, dict, SensorKeys[sensor_index]) THEN <<>>
    ELSE IF /\ WithinTolerance(current_value, optimal_min, optimal_max)
            /\ ml[1] # "True"
    THEN <<>>
    ELSE IF current_value < optimal_min \/ current_value > optimal_max
    THEN <<Command(sensor_index, current_value,
                   TargetValue(optimal_min, optimal_max),
                   Action(current_value, optimal_min, optimal_max),
                   ml_trainer, ml, tie_up)>>
    ELSE <<>>

\* lines 919-1046 for one channel whose band is known: the commands it
\* appends (none or one)
ChannelDecision(sensor_index, current_value, dict, optimal_min, optimal_max, ml_trainer, ml, tie_up) ==
    IF SkipChannel(current_value, dict, SensorKeys[sensor_index]) THEN <<>>
    ELSE IF WithinTolerance(current_value, optimal_min, optimal_max) THEN <<>>
    ELSE IF current_value < optimal_min \/ current_value > optimal_max
    THEN <<Command(sensor_index, current_value,
                   TargetValue(optimal_min, optimal_max),
                   Action(current_value, optimal_min, optimal_max),
                   ml_trainer, ml, tie_up)>>
    ELSE <<>>

\* lines 922-934: the band of the channel, as floats
ChannelCommands(sensor_index, current_value, dict, conditions, ml_trainer, tie_up) ==
    ChannelDecision(sensor_index, current_value, dict,
                    conditions[SensorKeys[sensor_index]].optimal_min * Unit,
                    conditions[SensorKeys[sensor_index]].optimal_max * Unit,
                    ml_trainer, MlPrediction(ml_trainer), tie_up)

\* one pass of the loop body of line 858: [raised, commands]
ChannelStep(sensor_index, cv, dict, conditions, ml_trainer, tie_up) ==
    [raised |-> cv.raised,
     commands |-> ChannelCommands(sensor_index, cv.value, dict, conditions,
                                  ml_trainer, tie_up)]

RECURSIVE Flatten(_)
\* the commands of the channels, in the order of the loop
Flatten(steps) ==
    IF steps = <<>> THEN <<>> ELSE Head(steps).commands \o Flatten(Tail(steps))

\* A ValueError in any channel leaves the call, and nothing is returned.
LoopResult(steps, ml_features) ==
    IF \E i \in 1..Len(steps) : steps[i].raised
    THEN [raised |-> TRUE, commands |-> <<>>, ml_features |-> ml_features]
    ELSE [raised |-> FALSE, commands |-> Flatten(steps), ml_features |-> ml_features]

\* the for loop of line 858 over the four channels
ChannelLoop(sensor_data, dict, conditions, ml_trainer, tie_up) ==
    LoopResult([i \in 1..Len(SensorKeys) |->
                  ChannelStep(i, CurrentValue(sensor_data, dict, SensorKeys[i]),
                              dict, conditions, ml_trainer, tie_up)],
               MlFeatures(ml_trainer, dict))

\* generate_control_commands(sensor_data, farm_id, ml_trainer):
\* [raised, commands, ml_features]
generate_control_commands(reg, sensor_data, farm, ml_trainer, tie_up) ==
    ChannelLoop(sensor_data, ValidateSensors(SensorsDict(sensor_data)),
                GetCropConditions(reg, farm)[1], ml_trainer, tie_up)

(***************************************************************************)
(* Inputs of the model                                                     *)
(***************************************************************************)
MaxFields == 2    \* fields present in a direct-field payload
MaxSensors == 2   \* entries of a 'sensors' payload

Singyu == <<"singyu">>

\* what the data store answers for the farm of the call
Farm(id, crop_name, fails) ==
    [farm_id |-> id, crop_name |-> crop_name, store_fails |-> fails]

FarmLookups ==
    { Farm(1, Str(<<>>), FALSE),       \* farm 1 without a crop: apple
      Farm(2, Str(Singyu), FALSE),     \* unknown until it is registered
      Farm(2, Num(7), FALSE),          \* cropName is not text: strip() raises
      Farm(2, Str(<<>>), TRUE) }       \* get_farm_data raises

\* request bodies of POST /api/crops: a new crop whose humidity band is
\* inverted and whose temperature band is a single point, a name the table
\* holds already, and a blank name
NewCropRequests ==
    { [name |-> Singyu,
       conditions |-> [humidity |-> [optimal_min |-> 70, optimal_max |-> 50],
                       temperature |-> [optimal_min |-> 22, optimal_max |-> 22]]],
      [name |-> Tomato, conditions |-> EmptyDict],
      [name |-> <<" ">>, conditions |-> EmptyDict] }

Predictors ==
    { NoTrainer,
      Trainer(FALSE, FALSE, EmptyDict),
      Trainer(TRUE, TRUE, EmptyDict),
      Trainer(TRUE, FALSE, [is_anomaly |-> TRUE, confidence |-> 80]),
      Trainer(TRUE, FALSE, [is_anomaly |-> TRUE, confidence |-> 70]),
      Trainer(TRUE, FALSE, [is_anomaly |-> FALSE, confidence |-> 80]),
      \* what MLTrainer.predict_anomaly returns: no "confidence" key
      Trainer(TRUE, FALSE, [is_anomaly |-> TRUE]) }

Cent == Unit \div 100

\* the edges of the no-command interval of a band, in Units
LowEdge(band) ==
    (100 * band.optimal_min * Unit
       - Tolerance100(band.optimal_min * Unit, band.optimal_max * Unit)) \div 100
HighEdge(band) ==
    (100 * band.optimal_max * Unit
       + Tolerance100(band.optimal_min * Unit, band.optimal_max * Unit)) \div 100

\* readings of a channel: around both edges of its band, the middle of the
\* band, a value outside every validity range, and unparsable text
FieldValues(band) ==
    { Num(LowEdge(band) - Cent), Num(LowEdge(band)),
      Num(HighEdge(band)), Num(HighEdge(band) + Cent),
      Num(TargetValue(band.optimal_min * Unit, band.optimal_max * Unit)),
      Num(150 * Unit), Str(<<"a", "b", "c">>) }

\* the dict that holds the fields that are given a value
FieldsOf(values) ==
    [c \in {k \in Channels : values[k] # Absent} |-> values[c]]

\* the dicts that give at most MaxFields channels a reading of their own
DirectPayloads(conditions) ==
    { f \in { FieldsOf([humidity |-> h, temperature |-> t,
                        light |-> l, soil_moisture |-> s]) :
                h \in FieldValues(conditions["humidity"]) \cup {Absent},
                t \in FieldValues(conditions["temperature"]) \cup {Absent},
                l \in FieldValues(conditions["light"]) \cup {Absent},
                s \in FieldValues(conditions["soil_moisture"]) \cup {Absent} } :
        Cardinality(DOMAIN f) <= MaxFields }

Sensor(name, rawValue, value) ==
    [name |-> name, rawValue |-> rawValue, value |-> value]

SensorEntries(conditions) ==
    { Sensor(<<"seupdo">>, Absent, Num(30 * Unit)),
      Sensor(<<"seupdo">>, Num(150 * Unit), Absent),
      Sensor(<<"seupdo">>, Absent, Obj),
      Sensor(<<"ondo">>, Absent, Str(<<"3", "0", "degC">>)),
      Sensor(<<"ondo">>, Absent, Str(<<"a", "b", "c">>)),
      Sensor(<<"toyang", "seupdo">>, Num(0), Num(55 * Unit)),
      Sensor(<<"Soil", "Humidity">>, Absent, Num(-20 * Unit)),
      Sensor(<<"amnyeok">>, Absent, Num(HighEdge(conditions["light"]) + Cent)),
      Sensor(<<"chaegwang">>, None, Num(HighEdge(conditions["light"]))),
      Sensor(<<"gita">>, Absent, Num(10 * Unit)) }

RECURSIVE SeqsUpTo(_, _)
\* the sequences over S of length at most n
SeqsUpTo(S, n) ==
    IF n = 0 THEN {<<>>}
    ELSE {<<>>} \cup {<<x>> \o q : x \in S, q \in SeqsUpTo(S, n - 1)}

SensorsPayload(sensors) ==
    [has_sensors |-> TRUE, sensors |-> sensors, fields |-> EmptyDict]
DirectPayload(fields) ==
    [has_sensors |-> FALSE, sensors |-> <<>>, fields |-> fields]

(***************************************************************************)
(* The learned predictor (ml_trainer.MLTrainer) and its model directory    *)
(*                                                                         *)
(* A scaler or model object is [present, fitted, run]: present is "is not  *)
(* None", fitted whether fit has completed on it, and run the number of    *)
(* the train_models call that created it (0 for an object unpickled from   *)
(* a directory an earlier process wrote).  A file of the model directory   *)
(* is the object pickled in it, NoModel when the file does not exist.      *)
(* Probabilities are in percent.                                           *)
(***************************************************************************)
NoModel == [present |-> FALSE, fitted |-> FALSE, run |-> 0]
Model(fitted, run) == [present |-> TRUE, fitted |-> fitted, run |-> run]

\* MLTrainer.__init__
MLTrainer ==
    [scaler |-> NoModel, anomaly_classifier |-> NoModel,
     condition_predictor |-> NoModel, is_trained |-> FALSE]

\* the directory __init__ creates when there is none
EmptyDir ==
    [metadata |-> FALSE, anomaly_classifier |-> NoModel,
     condition_predictor |-> NoModel, scaler |-> NoModel]

Dir(metadata, anomaly_classifier, condition_predictor, scaler) ==
    [metadata |-> metadata, anomaly_classifier |-> anomaly_classifier,
     condition_predictor |-> condition_predictor, scaler |-> scaler]

\* the file if it exists, else what the field holds
Unpickled(file, field) == IF file.present THEN file ELSE field

\* MLTrainer.load_models: nothing is read without metadata.json; each of
\* the three files is read when it exists, and one file read is enough for
\* is_trained
load_models(t, dir) ==
    IF ~dir.metadata THEN t
    ELSE [scaler |-> Unpickled(dir.scaler, t.scaler),
          anomaly_classifier |-> Unpickled(dir.anomaly_classifier, t.anomaly_classifier),
          condition_predictor |-> Unpickled(dir.condition_predictor, t.condition_predictor),
          is_trained |-> \/ t.is_trained
                         \/ dir.anomaly_classifier.present
                         \/ dir.condition_predictor.present
                         \/ dir.scaler.present]

\* the file after the write: the object when the write was reached and the
\* object is not None
Pickled(object, file, reached) == IF reached /\ object.present THEN object ELSE file

\* MLTrainer.save_models: the classifier, the predictor, the scaler and the
\* metadata are written in this order; written is the number of writes
\* that succeeded before the call returned or raised
save_models(t, dir, written) ==
    IF ~t.is_trained THEN dir
    ELSE Dir(dir.metadata \/ written >= 4,
             Pickled(t.anomaly_classifier, dir.anomaly_classifier, written >= 1),
             Pickled(t.condition_predictor, dir.condition_predictor, written >= 2),
             Pickled(t.scaler, dir.scaler, written >= 3))

NotTrained == [success |-> FALSE, error |-> "not_trained"]

\* what a call returned, or that it raised
Returns(result) == [raised |-> FALSE, result |-> result]
Raises == [raised |-> TRUE, result |-> EmptyDict]

\* transform, predict and predict_proba raise on None and on an object
\* whose fit has not completed
Usable(object) == object.present /\ object.fitted

\* MLTrainer.predict_anomaly; probability is the forest's anomaly
\* probability for the features, the predicted class the likelier one
predict_anomaly(t, probability) ==
    IF ~t.is_trained \/ ~t.anomaly_classifier.present THEN Returns(NotTrained)
    ELSE IF ~Usable(t.scaler) \/ ~Usable(t.anomaly_classifier) THEN Raises
    ELSE Returns([success |-> TRUE,
                  is_anomaly |-> probability > 50,
                  anomaly_probability |-> probability,
                  normal_probability |-> 100 - probability])

\* max(0.0, min(1.0, score)), in percent
CutScore(score) == IF score < 0 THEN 0 ELSE IF score > 100 THEN 100 ELSE score

\* MLTrainer.predict_condition_score; score is the forest's estimate in
\* percent
predict_condition_score(t, score) ==
    IF ~t.is_trained \/ ~t.condition_predictor.present THEN Returns(NotTrained)
    ELSE IF ~Usable(t.scaler) \/ ~Usable(t.condition_predictor) THEN Raises
    ELSE Returns([success |-> TRUE, score |-> CutScore(score),
                  score_percentage |-> CutScore(score)])

\* the trainer as generate_control_commands sees it (lines 835-847)
AsPredictor(t, probability) ==
    Trainer(t.is_trained, predict_anomaly(t, probability).raised,
            predict_anomaly(t, probability).result)

\* the scaler and the classifier a prediction is computed with
Observed(t) == [scaler |-> t.scaler, anomaly_classifier |-> t.anomaly_classifier]

\* the model directories the process may find at start: none written, a
\* complete one, one from which scaler.pkl is missing, one that holds the
\* scaler only, and one whose save failed before the metadata
ModelDirs ==
    { EmptyDir,
      Dir(TRUE, Model(TRUE, 0), Model(TRUE, 0), Model(TRUE, 0)),
      Dir(TRUE, Model(TRUE, 0), NoModel, NoModel),
      Dir(TRUE, NoModel, NoModel, Model(TRUE, 0)),
      Dir(FALSE, Model(TRUE, 0), Model(TRUE, 0), NoModel) }

\* anomaly probabilities and scores the forests may answer, in percent
Probabilities == {20, 80}
Scores == {-5, 60, 120}

MaxRuns == 2   \* train_models calls that get as far as fitting

\* load_models and train_models are not running
Settled(runs, result) == [pc |-> "idle", run |-> runs, result |-> result]
\* train_models stands before the step pc of run number run
Step(pc, run) == [pc |-> pc, run |-> run, result |-> "none"]

(***************************************************************************)
(* The sample store (data_manager.DataManager in memory mode)              *)
(*                                                                         *)
(* A stored entry keeps the id, the timestamp, the farm and the four       *)
(* validated readings (in Units, None for a channel the payload does not   *)
(* name).  The payloads carry no lastUpdate, so the timestamp is the       *)
(* server clock, which is counted in saves.                                *)
(***************************************************************************)
MaxStored == 1000
MaxSaves == 1003      \* save_sensor_data calls of a run
FreeArrivals == 2     \* the first payloads are chosen freely

\* DataManager.validate_sensor_value
validate_sensor_value(sensor_key, value) == ClipTo(ValidRange(sensor_key), value)

\* sensor.get('rawValue', 0) of an entry whose rawValue is a number
RawOrZero(sensor) == IF sensor.rawValue.kind = "absent" THEN 0 ELSE sensor.rawValue.n

\* the positions of the entries named label (name == label)
Named(sensors, label) == {i \in 1..Len(sensors) : sensors[i].name = label}

\* lines 150-164: the validated rawValue of the last entry named label,
\* None when there is none
StoredReading(sensors, label, sensor_key) ==
    IF Named(sensors, label) = {} THEN None
    ELSE Num(validate_sensor_value(sensor_key,
             RawOrZero(sensors[CHOOSE i \in Named(sensors, label) :
                                  \A j \in Named(sensors, label) : j <= i])))

\* lines 166-176: data_entry
DataEntry(list, timestamp, sensor_data) ==
    [id |-> Len(list) + 1,
     timestamp |-> timestamp,
     farm_id |-> sensor_data.currentFarm,
     humidity |-> StoredReading(sensor_data.sensors, <<"seupdo">>, "humidity"),
     temperature |-> StoredReading(sensor_data.sensors, <<"ondo">>, "temperature"),
     light |-> StoredReading(sensor_data.sensors, <<"chaegwang">>, "light"),
     soil_moisture |-> StoredReading(sensor_data.sensors, <<"toyang", "seupdo">>,
                                     "soil_moisture"),
     power_on |-> IF sensor_data.powerOn THEN 1 ELSE 0,
     connected |-> IF sensor_data.connected THEN 1 ELSE 0]

\* lines 181-182: the oldest entry goes when the list is longer than 1000
KeepNewest(list) == IF Len(list) > MaxStored THEN Tail(list) ELSE list

\* DataManager.save_sensor_data on sensor_data_list
save_sensor_data(list, timestamp, sensor_data) ==
    KeepNewest(Append(list, DataEntry(list, timestamp, sensor_data)))

\* lines 123-128: farm_info_dict['current_farm']
CurrentFarm(timestamp, sensor_data) ==
    [farm_id |-> sensor_data.currentFarm,
     power_on |-> IF sensor_data.powerOn THEN 1 ELSE 0,
     connected |-> IF sensor_data.connected THEN 1 ELSE 0,
     last_update |-> timestamp]

\* datetime.now() of the next save: later than every stored timestamp
Now(list) == IF list = <<>> THEN 1 ELSE list[Len(list)].timestamp + 1

\* the body of POST /api/sensor-data as app.receive_sensor_data hands it on
Payload(currentFarm, powerOn, connected, sensors) ==
    [currentFarm |-> currentFarm, powerOn |-> powerOn, connected |-> connected,
     sensors |-> sensors]

\* the payloads that may arrive at time now: any of two at first, then the
\* periodic report of the device, whose humidity leaves the validity range
\* every third time
Arrivals(now) ==
    IF now <= FreeArrivals
    THEN { Payload(1, TRUE, TRUE, << Sensor(<<"seupdo">>, Num(30 * Unit), Absent),
                                     Sensor(<<"seupdo">>, Num(65 * Unit), Absent) >>),
           Payload(2, FALSE, TRUE, << Sensor(<<"ondo">>, Absent, Num(22 * Unit)) >>) }
    ELSE { Payload(1 + (now % 3), TRUE, TRUE,
                   << Sensor(<<"seupdo">>, Num((40 + 35 * (now % 3)) * Unit), Absent) >>) }

(***************************************************************************)
(* The state machine                                                       *)
(***************************************************************************)
Idle == [op |-> "none"]

MaxThreads == 2   \* server threads that serve POST /api/crops
Threads == 1..MaxThreads

\* the thread waits for a request
Waiting == [pc |-> "wait"]

\* the process after start-up in an installation without saved models:
\* load_models has found no metadata.json and nothing has been received
Init ==
    /\ registry = CROP_OPTIMAL_CONDITIONS
    /\ request = Idle
    /\ response = Idle
    /\ sensor_data_list = <<>>
    /\ farm_info_dict = EmptyDict
    /\ trainer = MLTrainer
    /\ model_dir = EmptyDir
    /\ training = Settled(0, "none")
    /\ handlers = [t \in Threads |-> Waiting]

\* lines 398-411 of app.add_new_crop: a blank name and a name the table
\* already holds are answered with 400
Rejected(reg, crop_name) ==
    crop_name = <<>> \/ crop_name \in RegistryNames(reg)

\* app.add_new_crop (POST /api/crops)
AddNewCrop(data) ==
    /\ request = Idle
    /\ request' = [op |-> "add_crop", data |-> data]
    /\ registry' = IF Rejected(registry, StripSpaces(data.name)) THEN registry
                   ELSE add_crop(registry, StripSpaces(data.name),
                                 NewCropConditions(data.conditions))
    /\ response' = [op |-> "add_crop",
                    status |-> IF Rejected(registry, StripSpaces(data.name))
                               THEN 400 ELSE 201]
    /\ UNCHANGED Backend

\* whether the unrounded offset of some command lies exactly between two
\* one-decimal values, where the float decides which way round() goes
ExactTie(commands, ml) ==
    \E k \in 1..Len(commands) :
        ((Abs(commands[k].target_value - commands[k].current_value)
            * MagnitudeFactor(ml[1], ml[2])) \div 100) % (Unit \div 10) = Unit \div 20

\* what the call may return: one result, or either rounding of a tie
Outcomes(reg, up, sensor_data, farm, ml_trainer) ==
    IF ExactTie(up.commands, MlPrediction(ml_trainer))
    THEN {up, generate_control_commands(reg, sensor_data, farm, ml_trainer, FALSE)}
    ELSE {up}

\* one call of generate_control_commands
Control(sensor_data, farm, ml_trainer) ==
    \E up \in {generate_control_commands(registry, sensor_data, farm, ml_trainer, TRUE)} :
      \E out \in Outcomes(registry, up, sensor_data, farm, ml_trainer) :
        /\ request' = [op |-> "control", sensor_data |-> sensor_data,
                       farm |-> farm, ml_trainer |-> ml_trainer]
        /\ response' = [op |-> "control", raised |-> out.raised,
                        commands |-> out.commands, ml_features |-> out.ml_features]
        /\ UNCHANGED <<registry, Backend>>

ControlDirect ==
    /\ request = Idle
    /\ \E farm \in FarmLookups :
        \E fields \in DirectPayloads(GetCropConditions(registry, farm)[1]) :
            \E ml_trainer \in Predictors :
                Control(DirectPayload(fields), farm, ml_trainer)

ControlSensors ==
    /\ request = Idle
    /\ \E farm \in FarmLookups :
        \E sensors \in SeqsUpTo(SensorEntries(GetCropConditions(registry, farm)[1]),
                                MaxSensors) :
            \E ml_trainer \in Predictors :
                Control(SensorsPayload(sensors), farm, ml_trainer)

\* the handler returns: the reply goes out and the server waits for the next
\* request (requests are served one at a time)
Reply ==
    /\ request # Idle
    /\ request' = Idle
    /\ response' = Idle
    /\ UNCHANGED <<registry, Backend>>

Next ==
    \/ \E data \in NewCropRequests : AddNewCrop(data)
    \/ ControlDirect
    \/ ControlSensors
    \/ Reply

Spec == Init /\ [][Next]_vars

(***************************************************************************)
(* The analytics: analyze_average_data, detect_anomalies and               *)
(* predict_production.                                                     *)
(*                                                                         *)
(* Numbers.  The readings of a sample are whole numbers (None when the     *)
(* channel was not measured) and the band boundaries are whole numbers;    *)
(* every mean, score and estimate is the exact fraction <<n, d>>, d > 0,   *)
(* in lowest terms.  A z-score is never computed as a number: z > k is     *)
(* decided on the squares.                                                 *)
(*                                                                         *)
(* Text of the results, romanised: choejeok = optimal, yangho =            *)
(* acceptable, juui = warning, wiheom = critical, deiteo_eopseum = no      *)
(* data, nopeum = high, junggan = medium, najeum = low.                    *)
(***************************************************************************)
RECURSIVE GCD(_, _)
GCD(a, b) == IF b = 0 THEN a ELSE GCD(b, a % b)

Reduce(n, d, g) == <<n \div g, d \div g>>
\* the fraction n / d, d > 0
Rat(n, d) == Reduce(n, d, GCD(Abs(n), d))
RatInt(k) == <<k, 1>>
\* a + b over the least common denominator, g = GCD of the denominators
AddOver(a, b, g) == Rat(a[1] * (b[2] \div g) + b[1] * (a[2] \div g), (a[2] \div g) * b[2])
RatAdd(a, b) == AddOver(a, b, GCD(a[2], b[2]))
RatSub(a, b) == RatAdd(a, <<-b[1], b[2]>>)
\* a * b with the common factors g and h taken out first
MulOver(a, b, g, h) == Rat((a[1] \div g) * (b[1] \div h), (a[2] \div h) * (b[2] \div g))
RatMul(a, b) == MulOver(a, b, Max2(1, GCD(Abs(a[1]), b[2])), Max2(1, GCD(Abs(b[1]), a[2])))
\* a / k for a whole number k > 0
RatDivInt(a, k) == Rat(a[1], a[2] * k)
RatLt(a, b) == a[1] * b[2] < b[1] * a[2]
RatLe(a, b) == a[1] * b[2] <= b[1] * a[2]
RatMax(a, b) == IF RatLt(a, b) THEN b ELSE a

RECURSIVE RatSum(_)
RatSum(scores) ==
    IF scores = <<>> THEN RatInt(0)
    ELSE RatAdd(Head(scores), RatSum(Tail(scores)))

\* np.mean of a non-empty list of fractions
RatMean(scores) == RatDivInt(RatSum(scores), Len(scores))

RECURSIVE Sum(_)
Sum(values) == IF values = <<>> THEN 0 ELSE Head(values) + Sum(Tail(values))

RECURSIVE MinOf(_)
MinOf(values) ==
    IF Len(values) = 1 THEN values[1] ELSE Min2(Head(values), MinOf(Tail(values)))

RECURSIVE MaxOf(_)
MaxOf(values) ==
    IF Len(values) = 1 THEN values[1] ELSE Max2(Head(values), MaxOf(Tail(values)))

\* np.mean of a non-empty list of whole numbers
Mean(values) == Rat(Sum(values), Len(values))

RECURSIVE ValuesOf(_, _)
\* the readings of a channel that are not None, in the order of the samples
ValuesOf(sensor_data, sensor_type) ==
    IF sensor_data = <<>> THEN <<>>
    ELSE IF Head(sensor_data)[sensor_type].kind = "none"
    THEN ValuesOf(Tail(sensor_data), sensor_type)
    ELSE <<Head(sensor_data)[sensor_type].n>> \o ValuesOf(Tail(sensor_data), sensor_type)

\* a penalty that is not held at the floor
PenalisedUnfloored(floor, base, distance, range_size) ==
    RatSub(base, RatMul(RatDivInt(distance, range_size), Rat(4, 10)))

\* max(floor, base - (distance / range_size) * 0.4)
Penalised(floor, base, distance, range_size) ==
    RatMax(floor, RatSub(base, RatMul(RatDivInt(distance, range_size), Rat(4, 10))))

\* a score that takes the two ends of the optimal band as outside it
ScoreOpenBand(value, opt_min, opt_max, acc_min, acc_max) ==
    IF opt_max <= opt_min THEN Rat(5, 10)
    ELSE IF RatLt(RatInt(opt_min), value) /\ RatLt(value, RatInt(opt_max))
    THEN RatInt(1)
    ELSE Rat(6, 10)

\* AIAnalysis._calculate_optimal_score
calculate_optimal_score(value, opt_min, opt_max, acc_min, acc_max) ==
    IF opt_max <= opt_min THEN Rat(5, 10)
    ELSE IF RatLe(RatInt(opt_min), value) /\ RatLe(value, RatInt(opt_max))
    THEN RatInt(1)
    ELSE IF RatLe(RatInt(acc_min), value) /\ RatLt(value, RatInt(opt_min))
    THEN Penalised(Rat(6, 10), RatInt(1), RatSub(RatInt(opt_min), value),
                   opt_max - opt_min)
    ELSE IF RatLt(RatInt(opt_max), value) /\ RatLe(value, RatInt(acc_max))
    THEN Penalised(Rat(6, 10), RatInt(1), RatSub(value, RatInt(opt_max)),
                   opt_max - opt_min)
    ELSE IF RatLt(value, RatInt(acc_min))
    THEN Penalised(Rat(2, 10), Rat(6, 10), RatSub(RatInt(acc_min), value),
                   opt_max - opt_min)
    ELSE Penalised(Rat(2, 10), Rat(6, 10), RatSub(value, RatInt(acc_max)),
                   opt_max - opt_min)

\* AIAnalysis._determine_status
\* a status whose acceptable band is open at both ends
StatusOpenAcceptable(value, opt_min, opt_max, acc_min, acc_max, crit_min, crit_max) ==
    IF RatLe(RatInt(opt_min), value) /\ RatLe(value, RatInt(opt_max))
    THEN "choejeok"
    ELSE IF RatLt(RatInt(acc_min), value) /\ RatLt(value, RatInt(acc_max))
    THEN "yangho"
    ELSE IF \/ RatLe(RatInt(crit_min), value) /\ RatLe(value, RatInt(acc_min))
            \/ RatLe(RatInt(acc_max), value) /\ RatLe(value, RatInt(crit_max))
    THEN "juui"
    ELSE "wiheom"

determine_status(value, opt_min, opt_max, acc_min, acc_max, crit_min, crit_max) ==
    IF RatLe(RatInt(opt_min), value) /\ RatLe(value, RatInt(opt_max))
    THEN "choejeok"
    ELSE IF RatLe(RatInt(acc_min), value) /\ RatLe(value, RatInt(acc_max))
    THEN "yangho"
    ELSE IF \/ RatLe(RatInt(crit_min), value) /\ RatLt(value, RatInt(acc_min))
            \/ RatLt(RatInt(acc_max), value) /\ RatLe(value, RatInt(crit_max))
    THEN "juui"
    ELSE "wiheom"

\* the result of _calculate_statistics_with_optimal for values whose mean
\* is avg
StatisticsOf(values, avg, band) ==
    [count |-> Len(values),
     average |-> avg,
     min |-> MinOf(values),
     max |-> MaxOf(values),
     status |-> determine_status(avg, band.optimal_min, band.optimal_max,
                                 band.acceptable_min, band.acceptable_max,
                                 band.critical_min, band.critical_max),
     optimal_score |-> calculate_optimal_score(avg, band.optimal_min,
                                               band.optimal_max,
                                               band.acceptable_min,
                                               band.acceptable_max)]

\* AIAnalysis._calculate_statistics_with_optimal
calculate_statistics_with_optimal(values, sensor_type, crop_conditions) ==
    IF values = <<>>
    THEN [count |-> 0, average |-> RatInt(0), min |-> 0, max |-> 0,
          status |-> "deiteo_eopseum", optimal_score |-> RatInt(0)]
    ELSE StatisticsOf(values, Mean(values), crop_conditions[sensor_type])

\* optimal_score of a result that holds none
NoScore == <<>>

RECURSIVE ScoresOf(_, _)
\* lines 130-134: the scores of the channels whose optimal_score is not None
ScoresOf(sensor_types, result) ==
    IF sensor_types = <<>> THEN <<>>
    ELSE IF result[Head(sensor_types)].optimal_score # NoScore
    THEN <<result[Head(sensor_types)].optimal_score>>
            \o ScoresOf(Tail(sensor_types), result)
    ELSE ScoresOf(Tail(sensor_types), result)

\* line 136: float(np.mean(scores)) if scores else 0.0
OverallOf(scores) == IF scores = <<>> THEN RatInt(0) ELSE RatMean(scores)

\* lines 126, 382 and 610: not crop_exists and crop_name and
\* crop_name.strip() != ''
HasWarning(crop_name, crop_exists) ==
    ~crop_exists /\ StripSpaces(crop_name) # <<>>

\* the result of lines 110-142 once the per-channel statistics are known
AnalysisOf(sensor_data, stats, crop) ==
    [op |-> "analyze", success |-> TRUE,
     keys |-> {"success", "period_days", "data_count", "analysis_date",
               "crop_type", "crop_exists", "humidity", "temperature", "light",
               "soil_moisture", "overall_score", "recommendations"}
              \cup (IF HasWarning(crop[2], crop[3]) THEN {"warning"} ELSE {}),
     data_count |-> Len(sensor_data),
     crop_type |-> crop[2], crop_exists |-> crop[3],
     stats |-> stats,
     overall_score |-> OverallOf(ScoresOf(SensorKeys, stats))]

\* AIAnalysis.analyze_average_data on a given sample list; crop is what
\* _get_crop_conditions answered
AnalyzeWith(sensor_data, crop) ==
    IF sensor_data = <<>>
    THEN [op |-> "analyze", success |-> FALSE,
          keys |-> {"success", "message", "period_days", "data_count", "crop_type"},
          data_count |-> 0, crop_type |-> crop[2]]
    ELSE AnalysisOf(sensor_data,
                    [k \in Channels |->
                       calculate_statistics_with_optimal(
                           ValuesOf(sensor_data, k), k, crop[1])],
                    crop)

analyze_average_data(reg, farm, sensor_data) ==
    AnalyzeWith(sensor_data, GetCropConditions(reg, farm))

(***************************************************************************)
(* detect_anomalies.  threshold_std is a fraction.  A timestamp is text:   *)
(* a sequence of one-character strings, the date, 'T' or ' ', the time.    *)
(***************************************************************************)
\* the display names detect_anomalies passes (lines 342-353)
AnomalySensorName(sensor_type) ==
    CASE sensor_type = "humidity" -> "seupdo"
      [] sensor_type = "temperature" -> "ondo"
      [] sensor_type = "light" -> "chaegwang"
      [] sensor_type = "soil_moisture" -> "toyangseupdo"

RECURSIVE SquareSum(_, _, _)
\* the sum over values of (n * x - total)^2: n^3 times the variance
SquareSum(values, n, total) ==
    IF values = <<>> THEN 0
    ELSE (n * Head(values) - total) ^ 2 + SquareSum(Tail(values), n, total)

\* n^3 times np.std(values)^2
Spread(values) == SquareSum(values, Len(values), Sum(values))

\* n^2 times (value - mean)^2
Deviation2(values, value) == (Len(values) * value - Sum(values)) ^ 2

\* z_score > threshold_std * (c2 / 2), decided on the squares:
\* z^2 = n * Deviation2 / Spread
ZAbove(values, value, c2, threshold_std) ==
    \/ threshold_std[1] < 0
    \/ 4 * threshold_std[2] ^ 2 * Len(values) * Deviation2(values, value)
         > c2 ^ 2 * threshold_std[1] ^ 2 * Spread(values)

Flag(severity, reason) == [is_anomaly |-> TRUE, severity |-> severity, reason |-> reason]
NoFlag == [is_anomaly |-> FALSE, severity |-> "junggan", reason |-> "none"]

\* a classification whose outlier rule fires at threshold_std already
ClassifyOutlierEarly(values, value, band, threshold_std) ==
    IF value < band.critical_min THEN Flag("nopeum", "critical_low")
    ELSE IF value > band.critical_max THEN Flag("nopeum", "critical_high")
    ELSE IF value < band.acceptable_min THEN Flag("nopeum", "acceptable_low")
    ELSE IF value > band.acceptable_max THEN Flag("nopeum", "acceptable_high")
    ELSE IF value < band.optimal_min
    THEN (IF ZAbove(values, value, 2, threshold_std)
          THEN Flag("junggan", "optimal_low") ELSE NoFlag)
    ELSE IF value > band.optimal_max
    THEN (IF ZAbove(values, value, 2, threshold_std)
          THEN Flag("junggan", "optimal_high") ELSE NoFlag)
    ELSE IF ZAbove(values, value, 2, threshold_std)
    THEN Flag("junggan", "outlier")
    ELSE NoFlag

\* a classification that looks at the acceptable band before the critical one
ClassifyAcceptableFirst(values, value, band, threshold_std) ==
    IF value < band.acceptable_min THEN Flag("nopeum", "acceptable_low")
    ELSE IF value > band.acceptable_max THEN Flag("nopeum", "acceptable_high")
    ELSE IF value < band.optimal_min
    THEN (IF ZAbove(values, value, 2, threshold_std)
          THEN Flag("junggan", "optimal_low") ELSE NoFlag)
    ELSE IF value > band.optimal_max
    THEN (IF ZAbove(values, value, 2, threshold_std)
          THEN Flag("junggan", "optimal_high") ELSE NoFlag)
    ELSE IF ZAbove(values, value, 3, threshold_std)
    THEN Flag("junggan", "outlier")
    ELSE NoFlag

\* lines 437-470: the rule that flags a reading, first match first
Classify(values, value, band, threshold_std) ==
    IF value < band.critical_min THEN Flag("nopeum", "critical_low")
    ELSE IF value > band.critical_max THEN Flag("nopeum", "critical_high")
    ELSE IF value < band.acceptable_min THEN Flag("nopeum", "acceptable_low")
    ELSE IF value > band.acceptable_max THEN Flag("nopeum", "acceptable_high")
    ELSE IF value < band.optimal_min
    THEN (IF ZAbove(values, value, 2, threshold_std)
          THEN Flag("junggan", "optimal_low") ELSE NoFlag)
    ELSE IF value > band.optimal_max
    THEN (IF ZAbove(values, value, 2, threshold_std)
          THEN Flag("junggan", "optimal_high") ELSE NoFlag)
    ELSE IF ZAbove(values, value, 3, threshold_std)
    THEN Flag("junggan", "outlier")
    ELSE NoFlag

\* an anomaly that keeps the severity of its rule
AnomalyUnescalated(sensor_type, timestamp, values, value, band, threshold_std, flag) ==
    [sensor |-> AnomalySensorName(sensor_type),
     timestamp |-> timestamp,
     value |-> value,
     mean |-> Mean(values),
     z_squared |-> Rat(Len(values) * Deviation2(values, value), Spread(values)),
     anomaly_type |-> IF value < band.optimal_min THEN "najeum" ELSE "nopeum",
     severity |-> flag.severity,
     optimal_min |-> band.optimal_min,
     optimal_max |-> band.optimal_max,
     reason |-> flag.reason]

\* lines 472-490: the anomaly appended for a flagged reading
Anomaly(sensor_type, timestamp, values, value, band, threshold_std, flag) ==
    [sensor |-> AnomalySensorName(sensor_type),
     timestamp |-> timestamp,
     value |-> value,
     mean |-> Mean(values),
     z_squared |-> Rat(Len(values) * Deviation2(values, value), Spread(values)),
     anomaly_type |-> IF value < band.optimal_min THEN "najeum" ELSE "nopeum",
     severity |-> IF ZAbove(values, value, 4, threshold_std)
                  THEN "nopeum" ELSE flag.severity,
     optimal_min |-> band.optimal_min,
     optimal_max |-> band.optimal_max,
     reason |-> flag.reason]

\* the anomalies one sample adds for a channel (none or one)
AnomaliesAt(sensor_type, sample, values, band, threshold_std, flag) ==
    IF flag.is_anomaly
    THEN <<Anomaly(sensor_type, sample.timestamp, values,
                   sample[sensor_type].n, band, threshold_std, flag)>>
    ELSE <<>>

RECURSIVE ScanReadings(_, _, _, _, _)
\* the loop of line 429 over the samples that hold a reading of the channel
ScanReadings(sensor_type, rest, values, band, threshold_std) ==
    IF rest = <<>> THEN <<>>
    ELSE IF Head(rest)[sensor_type].kind = "none"
    THEN ScanReadings(sensor_type, Tail(rest), values, band, threshold_std)
    ELSE AnomaliesAt(sensor_type, Head(rest), values, band, threshold_std,
                     Classify(values, Head(rest)[sensor_type].n, band, threshold_std))
           \o ScanReadings(sensor_type, Tail(rest), values, band, threshold_std)

\* a detector that is content with two valid values
DetectInTwo(sensor_type, sensor_data, values, band, threshold_std) ==
    IF Len(values) < 2 THEN <<>>
    ELSE IF Spread(values) = 0 THEN <<>>
    ELSE ScanReadings(sensor_type, sensor_data, values, band, threshold_std)

\* lines 409-417 on the valid values of the channel
DetectIn(sensor_type, sensor_data, values, band, threshold_std) ==
    IF Len(values) < 3 THEN <<>>
    ELSE IF Spread(values) = 0 THEN <<>>
    ELSE ScanReadings(sensor_type, sensor_data, values, band, threshold_std)

\* AIAnalysis._detect_sensor_anomalies_with_optimal
detect_sensor_anomalies_with_optimal(sensor_type, sensor_data, threshold_std, crop_conditions) ==
    DetectIn(sensor_type, sensor_data, ValuesOf(sensor_data, sensor_type),
             crop_conditions[sensor_type], threshold_std)

\* the order of the characters of a timestamp
CharRank(c) ==
    CASE c = " " -> 0 [] c = "-" -> 1 [] c \in Digits -> 2 + DigitVal(c)
      [] c = ":" -> 12 [] c = "T" -> 13 [] OTHER -> 14

RECURSIVE TextLe(_, _)
\* a <= b for two texts, as Python compares str
TextLe(a, b) ==
    IF a = <<>> THEN TRUE
    ELSE IF b = <<>> THEN FALSE
    ELSE IF Head(a) = Head(b) THEN TextLe(Tail(a), Tail(b))
    ELSE CharRank(Head(a)) < CharRank(Head(b))

\* the place of each entry in a stable sort on the timestamp: behind every
\* entry with an earlier timestamp and every earlier entry with the same one
TimestampRanks(anomalies) ==
    [j \in 1..Len(anomalies) |->
       Cardinality({x \in 1..Len(anomalies) :
                      \/ /\ TextLe(anomalies[x].timestamp, anomalies[j].timestamp)
                         /\ anomalies[x].timestamp # anomalies[j].timestamp
                      \/ /\ anomalies[x].timestamp = anomalies[j].timestamp
                         /\ x <= j})] \o <<>>

PlacedBy(anomalies, ranks) ==
    [p \in 1..Len(anomalies) |->
       anomalies[CHOOSE j \in 1..Len(anomalies) : ranks[j] = p]] \o <<>>

\* anomalies.sort(key=timestamp): a stable sort
SortByTimestamp(anomalies) == PlacedBy(anomalies, TimestampRanks(anomalies))

\* anomalies[:100]
DisplayCap == 100

CountWhere(anomalies, field, v) ==
    Cardinality({k \in 1..Len(anomalies) : anomalies[k][field] = v})

\* a result whose counts are taken over the returned list
DetectionOfListed(anomalies, threshold_std, crop) ==
    [op |-> "detect", success |-> TRUE,
     keys |-> {"success", "period_days", "analysis_date", "threshold_std",
               "total_anomalies", "critical_count", "warning_count",
               "anomalies", "crop_type", "crop_exists", "summary"}
              \cup (IF HasWarning(crop[2], crop[3]) THEN {"warning"} ELSE {}),
     total_anomalies |-> Min2(DisplayCap, Len(anomalies)),
     critical_count |->
        CountWhere(SubSeq(anomalies, 1, Min2(DisplayCap, Len(anomalies))),
                   "severity", "nopeum"),
     warning_count |->
        CountWhere(SubSeq(anomalies, 1, Min2(DisplayCap, Len(anomalies))),
                   "severity", "junggan"),
     anomalies |-> SubSeq(anomalies, 1, Min2(DisplayCap, Len(anomalies))),
     crop_type |-> crop[2], crop_exists |-> crop[3],
     summary |-> [k \in Channels |->
                    CountWhere(SubSeq(anomalies, 1, Min2(DisplayCap, Len(anomalies))),
                               "sensor", AnomalySensorName(k))]]

\* the result of lines 355-385 for the merged and sorted anomalies
DetectionOf(anomalies, threshold_std, crop) ==
    [op |-> "detect", success |-> TRUE,
     keys |-> {"success", "period_days", "analysis_date", "threshold_std",
               "total_anomalies", "critical_count", "warning_count",
               "anomalies", "crop_type", "crop_exists", "summary"}
              \cup (IF HasWarning(crop[2], crop[3]) THEN {"warning"} ELSE {}),
     total_anomalies |-> Len(anomalies),
     critical_count |-> CountWhere(anomalies, "severity", "nopeum"),
     warning_count |-> CountWhere(anomalies, "severity", "junggan"),
     anomalies |-> SubSeq(anomalies, 1, Min2(DisplayCap, Len(anomalies))),
     crop_type |-> crop[2], crop_exists |-> crop[3],
     summary |-> [k \in Channels |->
                    CountWhere(anomalies, "sensor", AnomalySensorName(k))]]

\* AIAnalysis.detect_anomalies on a given sample list; crop is what
\* _get_crop_conditions answered
DetectWith(sensor_data, threshold_std, crop) ==
    IF sensor_data = <<>>
    THEN [op |-> "detect", success |-> FALSE,
          keys |-> {"success", "message", "period_days", "anomalies",
                    "crop_type", "crop_exists"},
          anomalies |-> <<>>, crop_type |-> crop[2], crop_exists |-> crop[3]]
    ELSE DetectionOf(
           SortByTimestamp(
             detect_sensor_anomalies_with_optimal("humidity", sensor_data, threshold_std, crop[1])
             \o detect_sensor_anomalies_with_optimal("temperature", sensor_data, threshold_std, crop[1])
             \o detect_sensor_anomalies_with_optimal("light", sensor_data, threshold_std, crop[1])
             \o detect_sensor_anomalies_with_optimal("soil_moisture", sensor_data, threshold_std, crop[1])),
           threshold_std, crop)

detect_anomalies(reg, farm, threshold_std, sensor_data) ==
    DetectWith(sensor_data, threshold_std, GetCropConditions(reg, farm))

(***************************************************************************)
(* predict_production                                                      *)
(***************************************************************************)
RECURSIVE Before(_, _)
\* text.split(c)[0]
Before(text, c) ==
    IF text = <<>> THEN <<>>
    ELSE IF Head(text) = c THEN <<>>
    ELSE <<Head(text)>> \o Before(Tail(text), c)

\* a date portion that knows the separator 'T' only
DateOfIso(timestamp) == Before(timestamp, "T")

\* line 638: the date portion of a timestamp
DateOf(timestamp) ==
    IF \E i \in 1..Len(timestamp) : timestamp[i] = "T"
    THEN Before(timestamp, "T")
    ELSE Before(timestamp, " ")

RECURSIVE SamplesOn(_, _)
\* the samples of one date, in the order of the list
SamplesOn(sensor_data, date) ==
    IF sensor_data = <<>> THEN <<>>
    ELSE IF DateOf(Head(sensor_data).timestamp) = date
    THEN <<Head(sensor_data)>> \o SamplesOn(Tail(sensor_data), date)
    ELSE SamplesOn(Tail(sensor_data), date)

RECURSIVE SortedDates(_)
\* sorted(daily_data.items()): the dates in the order of str
SortedDates(dates) ==
    IF dates = {} THEN <<>>
    ELSE <<CHOOSE x \in dates : \A y \in dates : TextLe(x, y)>>
           \o SortedDates(dates \ {CHOOSE x \in dates : \A y \in dates : TextLe(x, y)})

\* a channel of a day without a reading
NoMean == <<>>

\* np.mean(day_data[ch]) if day_data[ch] else None
DayMean(values) == IF values = <<>> THEN NoMean ELSE Mean(values)

DayData(date, samples) ==
    [date |-> date,
     humidity |-> DayMean(ValuesOf(samples, "humidity")),
     temperature |-> DayMean(ValuesOf(samples, "temperature")),
     light |-> DayMean(ValuesOf(samples, "light")),
     soil_moisture |-> DayMean(ValuesOf(samples, "soil_moisture"))]

DailyOver(sensor_data, dates) ==
    [i \in 1..Len(dates) |-> DayData(dates[i], SamplesOn(sensor_data, dates[i]))]

\* AIAnalysis._aggregate_daily_data
aggregate_daily_data(sensor_data) ==
    DailyOver(sensor_data,
              SortedDates({DateOf(sensor_data[i].timestamp) : i \in 1..Len(sensor_data)}))

\* max(0.3, 1.0 - (distance / range_size) * 0.7)
Discounted(distance, range_size) ==
    RatMax(Rat(3, 10),
           RatSub(RatInt(1), RatMul(RatDivInt(distance, range_size), Rat(7, 10))))

\* lines 679-692: the score of one channel of a day
ChannelScore(value, min_val, max_val) ==
    IF RatLe(RatInt(min_val), value) /\ RatLe(value, RatInt(max_val)) THEN RatInt(1)
    ELSE IF max_val - min_val > 0
    THEN Discounted(IF RatLt(value, RatInt(min_val))
                    THEN RatSub(RatInt(min_val), value)
                    ELSE RatSub(value, RatInt(max_val)),
                    max_val - min_val)
    ELSE Rat(5, 10)

RECURSIVE DayScores(_, _, _)
\* the loop of line 673 over the channels of optimal_ranges
DayScores(sensors, day_data, crop_conditions) ==
    IF sensors = <<>> THEN <<>>
    ELSE IF day_data[Head(sensors)] = NoMean
    THEN DayScores(Tail(sensors), day_data, crop_conditions)
    ELSE <<ChannelScore(day_data[Head(sensors)],
                        crop_conditions[Head(sensors)].optimal_min,
                        crop_conditions[Head(sensors)].optimal_max)>>
           \o DayScores(Tail(sensors), day_data, crop_conditions)

\* np.mean(scores) if scores else 0.5
MeanOrHalf(scores) == IF scores = <<>> THEN Rat(5, 10) ELSE RatMean(scores)

\* AIAnalysis._calculate_environment_score; optimal_ranges are the optimal
\* bands of crop_conditions (lines 542-559)
calculate_environment_score(day_data, crop_conditions) ==
    MeanOrHalf(DayScores(SensorKeys, day_data, crop_conditions))

\* daily_data[-min(7, len(daily_data)):]
RollingDays == 7

\* the oldest k days
FirstDays(daily_data, k) == SubSeq(daily_data, 1, k)

\* daily_data[-k:]
LastDays(daily_data, k) == SubSeq(daily_data, Len(daily_data) - k + 1, Len(daily_data))

\* lines 562-565
RecentScores(recent, crop_conditions) ==
    [i \in 1..Len(recent) |-> calculate_environment_score(recent[i], crop_conditions)]

NumTrees == 100
DaysPerYear == 365
\* the default of prediction_days, which no caller sets
PredictionDays == 7

\* lines 575-586 for a forecast over prediction_days
Estimate(avg_score, base_production, for_period, confidence_level) ==
    [predicted_production |-> for_period,
     lower_bound |-> RatMax(RatInt(0),
                            RatSub(for_period,
                                   RatMul(for_period, RatSub(RatInt(1), confidence_level)))),
     upper_bound |-> RatAdd(for_period,
                            RatMul(for_period, RatSub(RatInt(1), confidence_level))),
     confidence |-> confidence_level,
     environment_score |-> avg_score,
     base_production |-> base_production,
     production_multiplier |-> RatAdd(Rat(6, 10), RatMul(avg_score, Rat(6, 10)))]

\* lines 567-607 once the rolling score is known
PredictionOf(avg_score, crop) ==
    [op |-> "predict", success |-> TRUE,
     keys |-> {"success", "analysis_date", "period_days", "prediction_days",
               "crop_type", "prediction", "recommendations"}
              \cup (IF HasWarning(crop[2], crop[3]) THEN {"warning"} ELSE {}),
     crop_type |-> crop[2],
     prediction |->
        Estimate(avg_score, crop[1].base_production_per_tree * NumTrees,
                 RatMul(RatDivInt(RatMul(RatInt(crop[1].base_production_per_tree * NumTrees),
                                         RatAdd(Rat(6, 10), RatMul(avg_score, Rat(6, 10)))),
                                  DaysPerYear),
                        RatInt(PredictionDays)),
                 RatAdd(Rat(7, 10), RatMul(avg_score, Rat(2, 10))))]

\* lines 529-613 on the aggregated days
PredictFrom(daily_data, crop) ==
    IF Len(daily_data) < 2
    THEN [op |-> "predict", success |-> FALSE,
          keys |-> {"success", "message", "period_days", "prediction_days", "crop_type"},
          crop_type |-> crop[2]]
    ELSE PredictionOf(
           MeanOrHalf(RecentScores(LastDays(daily_data,
                                            Min2(RollingDays, Len(daily_data))),
                                   crop[1])),
           crop)

\* AIAnalysis.predict_production on a given sample list; crop is what
\* _get_crop_conditions answered
PredictWith(sensor_data, crop) ==
    IF sensor_data = <<>>
    THEN [op |-> "predict", success |-> FALSE,
          keys |-> {"success", "message", "period_days", "prediction_days",
                    "crop_type", "crop_exists"},
          crop_type |-> crop[2], crop_exists |-> crop[3]]
    ELSE PredictFrom(aggregate_daily_data(sensor_data), crop)

predict_production(reg, farm, sensor_data) ==
    PredictWith(sensor_data, GetCropConditions(reg, farm))

(***************************************************************************)
(* Inputs of the analytics: the sample lists the store or the log          *)
(* extraction hands over                                                   *)
(***************************************************************************)
MaxSamples == 3   \* samples of a freely composed list
MaxDays == 8      \* days of a daily series

Timestamp(date, sep, time) == <<date, sep, time>>

Sample(timestamp, humidity, temperature, light, soil_moisture) ==
    [timestamp |-> timestamp, humidity |-> humidity, temperature |-> temperature,
     light |-> light, soil_moisture |-> soil_moisture]

\* samples of three dates; readings inside and outside the bands of the
\* table, and a sample that holds no reading
SampleChoices ==
    { Sample(Timestamp("1", "T", "0"), Num(50), Num(22), None, None),
      Sample(Timestamp("1", " ", "1"), Num(75), None, None, None),
      Sample(Timestamp("2", "T", "0"), Num(95), Num(26), None, None),
      Sample(Timestamp("2", "T", "1"), None, Num(40), None, None),
      Sample(Timestamp("3", "T", "0"), Num(70), None, Num(85), None),
      Sample(Timestamp("3", "T", "1"), None, None, None, None) }

\* one sample per reading of a channel, all on date 1 at successive times
ReadingSeries(sensor_type, readings) ==
    [i \in 1..Len(readings) |->
       [k \in {"timestamp"} \cup Channels |->
          IF k = "timestamp"
          THEN Timestamp("1", "T", CHOOSE c \in Digits : DigitVal(c) = i)
          ELSE IF k = sensor_type THEN Num(readings[i])
          ELSE None]]

\* one sample per day, dates 1, 2, ... in the order of the readings
DailySeries(sensor_type, readings) ==
    [i \in 1..Len(readings) |->
       [k \in {"timestamp"} \cup Channels |->
          IF k = "timestamp"
          THEN Timestamp(CHOOSE c \in Digits : DigitVal(c) = i, "T", "0")
          ELSE IF k = sensor_type THEN Num(readings[i])
          ELSE None]]

\* the samples of a history in which every reading of the four channels is
\* beyond the critical band
BurstSamples == 26

DigitOf(n) == CHOOSE c \in Digits : DigitVal(c) = n

\* sample i of the history, its time written with three digits
BurstSample(i) ==
    Sample(<<"1", "T", DigitOf(i \div 100), DigitOf((i \div 10) % 10), DigitOf(i % 10)>>,
           Num(95 + (i % 2)), Num(45 + (i % 2)), Num(110 + (i % 2)), Num(1 + (i % 2)))

RECURSIVE BurstSeries(_)
\* the history, newest sample first
BurstSeries(n) ==
    IF n = 0 THEN <<>> ELSE <<BurstSample(n)>> \o BurstSeries(n - 1)

RECURSIVE SeqsOfLen(_, _)
SeqsOfLen(S, n) ==
    IF n = 0 THEN {<<>>} ELSE {<<x>> \o q : x \in S, q \in SeqsOfLen(S, n - 1)}

\* the freely composed lists
SampleLists == SeqsUpTo(SampleChoices, MaxSamples)

\* a humidity series with one far reading
HumidityReadings == <<50, 55, 95, 52, 53>>
\* four daily temperature averages
TemperatureAverages == <<18, 22, 26, 30>>

\* daily temperature series of up to MaxDays days, a day being inside the
\* optimal band of the default entry (22) or above it (30)
DailyLists ==
    {DailySeries("temperature", TemperatureAverages)}
      \cup UNION {{DailySeries("temperature", q) : q \in SeqsOfLen({22, 30}, n)} :
                     n \in 1..MaxDays}

\* threshold_std: 0.25, 0.5 and the default 2.0
ThresholdStds == {Rat(1, 4), Rat(1, 2), RatInt(2)}

(***************************************************************************)
(* The analytics as requests                                               *)
(***************************************************************************)
Analyze ==
    /\ request = Idle
    /\ \E farm \in FarmLookups :
        \E sensor_data \in SampleLists \cup {ReadingSeries("humidity", HumidityReadings)} :
            /\ request' = [op |-> "analyze", farm |-> farm, sensor_data |-> sensor_data]
            /\ response' = analyze_average_data(registry, farm, sensor_data)
            /\ UNCHANGED <<registry, Backend>>

Detect ==
    /\ request = Idle
    /\ \E farm \in FarmLookups :
        \E sensor_data \in SampleLists \cup {ReadingSeries("humidity", HumidityReadings),
                                              BurstSeries(BurstSamples)} :
            \E threshold_std \in ThresholdStds :
                /\ request' = [op |-> "detect", farm |-> farm,
                               sensor_data |-> sensor_data,
                               threshold_std |-> threshold_std]
                /\ response' = detect_anomalies(registry, farm, threshold_std, sensor_data)
                /\ UNCHANGED <<registry, Backend>>

Predict ==
    /\ request = Idle
    /\ \E farm \in FarmLookups :
        \E sensor_data \in SampleLists \cup DailyLists :
            /\ request' = [op |-> "predict", farm |-> farm, sensor_data |-> sensor_data]
            /\ response' = predict_production(registry, farm, sensor_data)
            /\ UNCHANGED <<registry, Backend>>

AnalyticsNext ==
    \/ \E data \in NewCropRequests : AddNewCrop(data)
    \/ Analyze
    \/ Detect
    \/ Predict
    \/ Reply

AnalyticsSpec == Init /\ [][AnalyticsNext]_vars

(***************************************************************************)
(* The sample store: POST /api/sensor-data                                 *)
(***************************************************************************)
\* app.receive_sensor_data -> DataManager.save_sensor_data
SaveSensorData ==
    /\ Now(sensor_data_list) <= MaxSaves
    /\ \E sensor_data \in Arrivals(Now(sensor_data_list)) :
        /\ sensor_data_list' = save_sensor_data(sensor_data_list, Now(sensor_data_list),
                                                sensor_data)
        /\ farm_info_dict' = [current_farm |-> CurrentFarm(Now(sensor_data_list),
                                                           sensor_data)]
    /\ UNCHANGED <<registry, request, response, trainer, model_dir, training, handlers>>

StoreNext == SaveSensorData

StoreSpec == Init /\ [][StoreNext]_vars

(***************************************************************************)
(* The predictor: start-up, /api/ml/train, /api/ml/predict-anomaly,        *)
(* /api/ml/predict-score and /api/ai/control.  The server is threaded and  *)
(* the trainer has no lock: a train_models call advances statement by      *)
(* statement while other threads serve predictions.  A prediction reads    *)
(* the trainer in one step.                                                *)
(***************************************************************************)
\* the module is imported: the trainer is constructed (app.py line 32) and
\* load_models is about to run on whatever the directory holds
TrainerInit ==
    /\ registry = CROP_OPTIMAL_CONDITIONS
    /\ request = Idle
    /\ response = Idle
    /\ sensor_data_list = <<>>
    /\ farm_info_dict = EmptyDict
    /\ trainer = MLTrainer
    /\ model_dir \in ModelDirs
    /\ training = Step("load", 0)
    /\ handlers = [t \in Threads |-> Waiting]

\* what the steps of the trainer leave alone
Served == <<registry, request, response, sensor_data_list, farm_info_dict, handlers>>

\* app.py line 34
LoadModels ==
    /\ training.pc = "load"
    /\ trainer' = load_models(trainer, model_dir)
    /\ training' = Settled(0, "none")
    /\ UNCHANGED <<Served, model_dir>>

\* train_models up to line 339: with fewer than 10 features it returns an
\* error
TrainModels(enough) ==
    /\ training.pc = "idle"
    /\ training.run < MaxRuns
    /\ training' = IF enough THEN Step("scaler", training.run + 1)
                   ELSE Settled(training.run, "error")
    /\ UNCHANGED <<Served, trainer, model_dir>>

\* one statement of lines 346-383: train_models stands before the
\* statement pc, which leaves the trainer as after and train_models before
\* the statement next
TrainStep(pc, after, next) ==
    /\ training.pc = pc
    /\ trainer' = after
    /\ training' = Step(next, training.run)
    /\ UNCHANGED <<Served, model_dir>>

\* an object train_models has created, before and after its fit
Created == Model(FALSE, training.run)
Fitted == Model(TRUE, training.run)

\* line 386: self.save_models(), which raises when a write fails
SaveModels ==
    /\ training.pc = "save"
    /\ \E written \in 0..4 :
        /\ model_dir' = save_models(trainer, model_dir, written)
        /\ training' = Settled(training.run, IF written = 4 THEN "success" ELSE "raised")
    /\ UNCHANGED <<Served, trainer>>

\* app.ml_predict_anomaly
PredictAnomaly ==
    /\ request = Idle
    /\ training.pc # "load"
    /\ \E probability \in Probabilities :
        /\ request' = [op |-> "predict_anomaly"]
        /\ response' = [op |-> "predict_anomaly",
                        raised |-> predict_anomaly(trainer, probability).raised,
                        result |-> predict_anomaly(trainer, probability).result,
                        observed |-> Observed(trainer)]
    /\ UNCHANGED <<registry, Backend>>

\* app.ml_predict_score
PredictConditionScore ==
    /\ request = Idle
    /\ training.pc # "load"
    /\ \E score \in Scores :
        /\ request' = [op |-> "predict_condition_score"]
        /\ response' = [op |-> "predict_condition_score",
                        raised |-> predict_condition_score(trainer, score).raised,
                        result |-> predict_condition_score(trainer, score).result]
    /\ UNCHANGED <<registry, Backend>>

\* the farm and the payloads of the control calls that consult the trainer
AppleFarm == Farm(1, Str(<<>>), FALSE)
TrainedPayloads ==
    { SensorsPayload(<< Sensor(<<"seupdo">>, Num(30 * Unit), Absent) >>),
      SensorsPayload(<< Sensor(<<"ondo">>, Absent, Num(22 * Unit)),
                        Sensor(<<"seupdo">>, Absent, Num(95 * Unit)) >>) }

\* a generator that files the reading it evaluated in the sample store
ControlFiling ==
    /\ request = Idle
    /\ training.pc # "load"
    /\ \E sensor_data \in TrainedPayloads : \E probability \in Probabilities :
        \E up \in {generate_control_commands(registry, sensor_data, AppleFarm,
                                             AsPredictor(trainer, probability), TRUE)} :
          \E out \in Outcomes(registry, up, sensor_data, AppleFarm,
                              AsPredictor(trainer, probability)) :
            /\ request' = [op |-> "control", sensor_data |-> sensor_data,
                           farm |-> AppleFarm,
                           ml_trainer |-> AsPredictor(trainer, probability)]
            /\ response' = [op |-> "control", raised |-> out.raised,
                            commands |-> out.commands, ml_features |-> out.ml_features,
                            observed |-> Observed(trainer)]
            /\ sensor_data_list' = save_sensor_data(sensor_data_list, Now(sensor_data_list),
                                       Payload(1, TRUE, TRUE, sensor_data.sensors))
    /\ UNCHANGED <<registry, farm_info_dict, trainer, model_dir, training, handlers>>

\* app.ai_control: generate_control_commands with the trainer of the
\* application (line 679)
ControlTrained ==
    /\ request = Idle
    /\ training.pc # "load"
    /\ \E sensor_data \in TrainedPayloads : \E probability \in Probabilities :
        \E up \in {generate_control_commands(registry, sensor_data, AppleFarm,
                                             AsPredictor(trainer, probability), TRUE)} :
          \E out \in Outcomes(registry, up, sensor_data, AppleFarm,
                              AsPredictor(trainer, probability)) :
            /\ request' = [op |-> "control", sensor_data |-> sensor_data,
                           farm |-> AppleFarm,
                           ml_trainer |-> AsPredictor(trainer, probability)]
            /\ response' = [op |-> "control", raised |-> out.raised,
                            commands |-> out.commands, ml_features |-> out.ml_features,
                            observed |-> Observed(trainer)]
    /\ UNCHANGED <<registry, Backend>>

TrainerNext ==
    \/ LoadModels
    \/ \E enough \in BOOLEAN : TrainModels(enough)
    \* line 346: self.scaler = StandardScaler()
    \/ TrainStep("scaler", [trainer EXCEPT !.scaler = Created], "fit_scaler")
    \* line 347: self.scaler.fit_transform(X)
    \/ TrainStep("fit_scaler", [trainer EXCEPT !.scaler = Fitted], "classifier")
    \* lines 355-360: self.anomaly_classifier = RandomForestClassifier(...)
    \/ TrainStep("classifier", [trainer EXCEPT !.anomaly_classifier = Created],
                 "fit_classifier")
    \* line 361: self.anomaly_classifier.fit(...)
    \/ TrainStep("fit_classifier", [trainer EXCEPT !.anomaly_classifier = Fitted],
                 "predictor")
    \* lines 368-373: self.condition_predictor = RandomForestRegressor(...)
    \/ TrainStep("predictor", [trainer EXCEPT !.condition_predictor = Created],
                 "fit_predictor")
    \* line 374: self.condition_predictor.fit(...)
    \/ TrainStep("fit_predictor", [trainer EXCEPT !.condition_predictor = Fitted],
                 "trained")
    \* line 383: self.is_trained = True
    \/ TrainStep("trained", [trainer EXCEPT !.is_trained = TRUE], "save")
    \/ SaveModels
    \/ PredictAnomaly
    \/ PredictConditionScore
    \/ ControlTrained
    \/ Reply

TrainerSpec == TrainerInit /\ [][TrainerNext]_vars

(***************************************************************************)
(* The registry under concurrent POST /api/crops.  Each server thread runs *)
(* app.add_new_crop; the table has no lock, so another thread may run      *)
(* between the membership test of line 397 and the write of add_crop.      *)
(***************************************************************************)
\* two bodies that register the same new name with different bands
ConcurrentCropRequests ==
    NewCropRequests \cup
    { [name |-> Singyu, conditions |-> [humidity |-> [optimal_min |-> 40,
                                                       optimal_max |-> 60]]] }

\* what the handlers of the registry leave alone
Untouched == <<request, response, sensor_data_list, farm_info_dict, trainer, model_dir, training>>

\* lines 386-402: the body is read and the name is tested
ReceiveCrop(t, data) ==
    /\ handlers[t] = Waiting
    /\ handlers' = [handlers EXCEPT ![t] =
                      [pc |-> IF Rejected(registry, StripSpaces(data.name))
                              THEN "reply" ELSE "add",
                       data |-> data,
                       status |-> IF Rejected(registry, StripSpaces(data.name))
                                  THEN 400 ELSE 0]]
    /\ UNCHANGED <<registry, Untouched>>

\* lines 404-447: the conditions are built and add_crop writes the entry
StoreCrop(t) ==
    /\ handlers[t].pc = "add"
    /\ registry' = add_crop(registry, StripSpaces(handlers[t].data.name),
                            NewCropConditions(handlers[t].data.conditions))
    /\ handlers' = [handlers EXCEPT ![t] = [pc |-> "reply", data |-> handlers[t].data,
                                             status |-> 201]]
    /\ UNCHANGED Untouched

\* the reply goes out and the thread waits again
ReturnCrop(t) ==
    /\ handlers[t].pc = "reply"
    /\ handlers' = [handlers EXCEPT ![t] = Waiting]
    /\ UNCHANGED <<registry, Untouched>>

RegistryNext ==
    \/ \E t \in Threads : \E data \in ConcurrentCropRequests : ReceiveCrop(t, data)
    \/ \E t \in Threads : StoreCrop(t)
    \/ \E t \in Threads : ReturnCrop(t)

RegistrySpec == Init /\ [][RegistryNext]_vars

(***************************************************************************)
(* The evaluations together: analyze_average_data, detect_anomalies,       *)
(* predict_production and generate_control_commands with the trainer of    *)
(* the application, in a process that has received a sample and loaded a   *)
(* complete model directory.                                               *)
(***************************************************************************)
CompleteDir == Dir(TRUE, Model(TRUE, 0), Model(TRUE, 0), Model(TRUE, 0))
FirstPayload ==
    Payload(1, TRUE, TRUE, << Sensor(<<"seupdo">>, Num(65 * Unit), Absent) >>)

EvaluationInit ==
    /\ registry = CROP_OPTIMAL_CONDITIONS
    /\ request = Idle
    /\ response = Idle
    /\ sensor_data_list = save_sensor_data(<<>>, 1, FirstPayload)
    /\ farm_info_dict = [current_farm |-> CurrentFarm(1, FirstPayload)]
    /\ model_dir = CompleteDir
    /\ trainer = load_models(MLTrainer, CompleteDir)
    /\ training = Settled(0, "none")
    /\ handlers = [t \in Threads |-> Waiting]

EvaluationNext ==
    \/ \E data \in NewCropRequests : AddNewCrop(data)
    \/ Analyze
    \/ Detect
    \/ Predict
    \/ ControlTrained
    \/ Reply

EvaluationSpec == EvaluationInit /\ [][EvaluationNext]_vars


(***************************************************************************)
(* Properties.  A state with response.op = "control" is the end of one     *)
(* call of generate_control_commands: request holds its arguments,        *)
(* response what it returned (or that it raised), and registry the table   *)
(* it read.                                                                *)
(***************************************************************************)
IsControl == response.op = "control"
Returned == IsControl /\ ~response.raised

\* the band table the call read, and its validated sensors_dict
CallConditions == GetCropConditions(registry, request.farm)[1]
CallDict == ValidateSensors(SensorsDict(request.sensor_data))

ChannelIndexes == 1..Len(SensorKeys)

\* the current value of channel i in the call, and its band, in Units
Current(i) == CurrentValue(request.sensor_data, CallDict, SensorKeys[i]).value
\* whether reading the value of channel i is what raised
CurrentRaised(i) == CurrentValue(request.sensor_data, CallDict, SensorKeys[i]).raised
OptMin(i) == CallConditions[SensorKeys[i]].optimal_min * Unit
OptMax(i) == CallConditions[SensorKeys[i]].optimal_max * Unit

\* v against [opt_min - tolerance, opt_max + tolerance], everything times 100
BelowInterval(v, lo, hi) == 100 * v < 100 * lo - 5 * (hi - lo)
AboveInterval(v, lo, hi) == 100 * v > 100 * hi + 5 * (hi - lo)
InsideInterval(v, lo, hi) == ~BelowInterval(v, lo, hi) /\ ~AboveInterval(v, lo, hi)

\* the positions in a command list of the commands of channel i
CommandsOf(commands, i) ==
    {k \in 1..Len(commands) : commands[k].sensor_index = i}

\* offset is base * factor / 100 rounded to one decimal
IsScaled(c, factor) ==
    /\ c.offset % (Unit \div 10) = 0
    /\ 2 * Abs(100 * c.offset - Abs(c.target_value - c.current_value) * factor)
         <= 10 * Unit

\* C1: for every channel and every band, a current value inside
\* [opt_min - tolerance, opt_max + tolerance], ends included, produces no
\* command for the channel; a value above opt_max + tolerance produces a
\* 'decrease' command and a value below opt_min - tolerance an 'increase'
\* command.  (Violated: a call in which an entry of another channel carries
\* text that is no number raises, see C7, and returns no command at all.)
C1_Hysteresis ==
    IsControl =>
        \A i \in {j \in ChannelIndexes : ~CurrentRaised(j)} :
            /\ InsideInterval(Current(i), OptMin(i), OptMax(i))
                 => CommandsOf(response.commands, i) = {}
            /\ AboveInterval(Current(i), OptMin(i), OptMax(i))
                 => \E k \in CommandsOf(response.commands, i) :
                        response.commands[k].action = "decrease"
            /\ BelowInterval(Current(i), OptMin(i), OptMax(i))
                 => \E k \in CommandsOf(response.commands, i) :
                        response.commands[k].action = "increase"

\* whether the predictor of the call answered, flagged the reading, and
\* the confidence it reported (0.5 when it reported none), in percent
Answered == /\ request.ml_trainer.present
            /\ request.ml_trainer.is_trained
            /\ ~request.ml_trainer.raises
Flagged == /\ Answered
           /\ "is_anomaly" \in DOMAIN request.ml_trainer.result
           /\ request.ml_trainer.result["is_anomaly"]
Confidence ==
    IF Answered /\ "confidence" \in DOMAIN request.ml_trainer.result
    THEN request.ml_trainer.result["confidence"] ELSE 50

\* C2 (as amended): the magnitude of every emitted command is
\* |target - current| scaled by 100% if the predictor flags the reading as
\* anomalous with confidence > 0.7, by 95% if it flags it with confidence
\* in (0.5, 0.7], and by 90% otherwise (not flagged, no confidence above
\* 0.5, or no usable predictor), rounded to one decimal.
C2_FusionGatedOnAnomaly ==
    IsControl =>
        \A k \in 1..Len(response.commands) :
            IsScaled(response.commands[k],
                     IF Flagged /\ Confidence > 70 THEN 100
                     ELSE IF Flagged /\ Confidence > 50 THEN 95
                     ELSE 90)

\* C2 as stated: with a trained predictor the factor follows the
\* confidence alone: 100% above 0.7, 95% in (0.5, 0.7], 90% otherwise.
C2_FusionByConfidence ==
    IsControl /\ Answered =>
        \A k \in 1..Len(response.commands) :
            IsScaled(response.commands[k],
                     IF Confidence > 70 THEN 100
                     ELSE IF Confidence > 50 THEN 95
                     ELSE 90)

\* a call whose predictor flags the reading with confidence 0.8 and whose
\* command carries the whole of a base magnitude of more than one unit
C2_Witness ==
    /\ Returned /\ Flagged /\ Confidence = 80
    /\ \E k \in 1..Len(response.commands) :
         /\ Abs(response.commands[k].target_value
                  - response.commands[k].current_value) > Unit
         /\ IsScaled(response.commands[k], 100)
         /\ ~IsScaled(response.commands[k], 90)

\* what of a command list does not depend on the predictor
Decisions(commands) ==
    [k \in 1..Len(commands) |->
        <<commands[k].sensor_index, commands[k].action, commands[k].target_value,
          commands[k].current_value, commands[k].device>>]

\* the same call without a predictor
RuleBasedCall ==
    generate_control_commands(registry, request.sensor_data, request.farm,
                              NoTrainer, TRUE)

\* C3: two calls that differ only in the predictor (absent, untrained,
\* raising, or returning any is_anomaly/confidence pair) emit commands for
\* the same channels with the same action, target_value, current_value and
\* device (stated against the call without a predictor, which every call
\* then agrees with; a call raises exactly when that one does).
C3_PredictorNeverBlocksOrForces ==
    IsControl =>
        LET rule_based == RuleBasedCall
        IN  /\ response.raised = rule_based.raised
            /\ Decisions(response.commands) = Decisions(rule_based.commands)

\* a call whose predictor flags the reading with confidence 0.8, with a
\* command whose magnitude differs from the one without a predictor
C3_Witness ==
    /\ Returned /\ Flagged /\ Confidence = 80
    /\ response.commands # <<>>
    /\ \E k \in 1..Len(response.commands) :
         /\ response.commands[k].ml_info = "ml_anomaly_detected"
         /\ response.commands[k].offset # RuleBasedCall.commands[k].offset

\* the actuators the specification pairs with the two directions
RaiseActuator ==
    [humidity |-> "gaseupgi", temperature |-> "heater",
     light |-> "LED", soil_moisture |-> "geupsu"]
LowerActuator ==
    [humidity |-> "hwangi", temperature |-> "naengbang",
     light |-> "LED_off", soil_moisture |-> "baesu"]

\* the band of channel i in a band table, in Units
BandMin(conditions, i) == conditions[SensorKeys[i]].optimal_min * Unit
BandMax(conditions, i) == conditions[SensorKeys[i]].optimal_max * Unit

\* target, actuator and number of the commands of a call that read the
\* band table conditions
MidpointAndActuator(conditions) ==
    /\ \A k \in 1..Len(response.commands) :
         /\ 2 * response.commands[k].target_value
              = BandMin(conditions, response.commands[k].sensor_index)
                  + BandMax(conditions, response.commands[k].sensor_index)
         /\ response.commands[k].action \in {"increase", "decrease"}
         /\ response.commands[k].device =
              IF response.commands[k].action = "increase"
              THEN RaiseActuator[SensorKeys[response.commands[k].sensor_index]]
              ELSE LowerActuator[SensorKeys[response.commands[k].sensor_index]]
    /\ \A i \in ChannelIndexes : Cardinality(CommandsOf(response.commands, i)) <= 1

\* 'increase' exactly when current < opt_min, 'decrease' exactly when
\* current > opt_max
DirectionOf(c, conditions) ==
    /\ c.action = "increase" <=> c.current_value < BandMin(conditions, c.sensor_index)
    /\ c.action = "decrease" <=> c.current_value > BandMax(conditions, c.sensor_index)

\* C4 (as amended): an emitted command has the band midpoint as its
\* target_value and the actuator of its direction, at most one command is
\* emitted per channel per call, and for a band with opt_min <= opt_max
\* the action is 'increase' exactly when current < opt_min and 'decrease'
\* exactly when current > opt_max.
C4_CommandOfOrderedBand ==
    IsControl =>
        LET conditions == CallConditions
        IN  /\ MidpointAndActuator(conditions)
            /\ \A k \in 1..Len(response.commands) :
                 BandMin(conditions, response.commands[k].sensor_index)
                     <= BandMax(conditions, response.commands[k].sensor_index)
                   => DirectionOf(response.commands[k], conditions)

\* C4 as stated: the same for every band.
C4_CommandOfAnyBand ==
    IsControl =>
        LET conditions == CallConditions
        IN  /\ MidpointAndActuator(conditions)
            /\ \A k \in 1..Len(response.commands) :
                 DirectionOf(response.commands[k], conditions)

\* a call that returns an 'increase' and a 'decrease' command
C4_Witness ==
    /\ Returned
    /\ \E k1, k2 \in 1..Len(response.commands) :
         /\ response.commands[k1].action = "increase"
         /\ response.commands[k2].action = "decrease"
         /\ OptMin(response.commands[k1].sensor_index)
              < OptMax(response.commands[k1].sensor_index)
         /\ OptMin(response.commands[k2].sensor_index)
              < OptMax(response.commands[k2].sensor_index)

\* channel i cannot be resolved from the payload: no entry of the 'sensors'
\* list carries a label of the channel, or the direct field is missing
Unresolvable(i) ==
    IF request.sensor_data.has_sensors
    THEN /\ FirstMatch(request.sensor_data.sensors, SensorKeys[i]) = 0
         /\ SensorKeys[i] \notin DOMAIN SensorsDict(request.sensor_data)
    ELSE SensorKeys[i] \notin DOMAIN request.sensor_data.fields

\* C5: a channel whose current value cannot be resolved from the payload is
\* skipped: no command is emitted for it.
C5_UnresolvableSkipped ==
    IsControl =>
        \A i \in ChannelIndexes :
            Unresolvable(i) => CommandsOf(response.commands, i) = {}

\* the validity range of a channel as documented: humidity, light and soil
\* moisture 0..100, temperature -10..50, in Units
InValidityRange(key, v) ==
    IF key = "temperature" THEN -10 * Unit <= v /\ v <= 50 * Unit
    ELSE 0 <= v /\ v <= 100 * Unit

\* C6: for both payload formats the value compared with the band, used for
\* the magnitude and reported as current_value lies in the channel's
\* validity range.
C6_CurrentValueClamped ==
    IsControl =>
        /\ \A i \in {j \in ChannelIndexes : ~CurrentRaised(j)} :
             InValidityRange(SensorKeys[i], Current(i))
        /\ \A k \in 1..Len(response.commands) :
             InValidityRange(SensorKeys[response.commands[k].sensor_index],
                             response.commands[k].current_value)

\* the value a channel's entry or field carries is text that is no number
\* once '%' and the degree sign are removed
Unparsable(value) ==
    value.kind = "str" /\ ~PyFloat(RemoveAll(RemoveAll(value.s, "%"), "degC")).ok

\* C7: a non-numeric or unparsable current-value input never makes
\* generate_control_commands raise: the call returns, and a channel whose
\* value is unparsable is evaluated with the value 0.
C7_UnparsableNeverRaises ==
    IsControl =>
        /\ ~response.raised
        /\ \A i \in ChannelIndexes :
             (/\ request.sensor_data.has_sensors
              /\ FirstMatch(request.sensor_data.sensors, SensorKeys[i]) # 0
              /\ Unparsable(RawValue(request.sensor_data.sensors[
                     FirstMatch(request.sensor_data.sensors, SensorKeys[i])])))
               => Current(i) = 0

\* the payload of the call with only what belongs to channel i left in it
OnlyChannel(sensor_data, i) ==
    [has_sensors |-> sensor_data.has_sensors,
     sensors |-> SelectSeq(sensor_data.sensors,
                           LAMBDA e : \/ MatchesKey(e.name, SensorKeys[i])
                                      \/ ExtractChannel(e.name) = SensorKeys[i]),
     fields |-> [k \in (DOMAIN sensor_data.fields) \cap {SensorKeys[i]} |->
                    sensor_data.fields[k]]]

\* the commands of channel i in a list, as a sequence
ChannelPart(commands, i) ==
    SelectSeq(commands, LAMBDA c : c.sensor_index = i)

\* C8 (the generate_control_commands part): a malformed or missing reading
\* in one channel never aborts the call, and every channel gets the
\* commands it gets when the payload holds that channel alone.
C8_ChannelIsolation ==
    IsControl =>
        \A i \in ChannelIndexes :
            \E tie_up \in BOOLEAN :
                ChannelPart(response.commands, i) =
                    ChannelPart(generate_control_commands(
                                    registry, OnlyChannel(request.sensor_data, i),
                                    request.farm, request.ml_trainer, tie_up).commands,
                                i)

\* C9: with the predictor missing, untrained or failing, every channel
\* whose current value lies outside [opt_min - tolerance, opt_max +
\* tolerance] still gets its command, with 90% of the base magnitude; and
\* humidity 30 with optimal [50,70] and no predictor gives action =
\* increase, target = 60, magnitude = 27.0.
C9_PredictorUnavailable ==
    IsControl /\ ~Answered =>
        /\ \A i \in {j \in ChannelIndexes : ~CurrentRaised(j)} :
             ~InsideInterval(Current(i), OptMin(i), OptMax(i))
               => \E k \in CommandsOf(response.commands, i) :
                      IsScaled(response.commands[k], 90)
        /\ (/\ ~request.ml_trainer.present
            /\ ~CurrentRaised(1)
            /\ Current(1) = 30 * Unit
            /\ OptMin(1) = 50 * Unit /\ OptMax(1) = 70 * Unit)
             => \E k \in CommandsOf(response.commands, 1) :
                    /\ response.commands[k].action = "increase"
                    /\ response.commands[k].target_value = 60 * Unit
                    /\ response.commands[k].offset = 27 * Unit

\* the farm/crop lookup of the call raises: the data store fails, or the
\* stored cropName is no text
LookupRaises ==
    \/ request.farm.store_fails
    \/ request.farm.crop_name.kind \in {"num", "obj"}

\* C10: if the crop-threshold lookup raises, generate_control_commands
\* returns an empty command list and does not raise.
C10_LookupFailureGivesNoCommands ==
    IsControl /\ LookupRaises =>
        ~response.raised /\ response.commands = <<>>

(***************************************************************************)
(* Calls that show the divergences                                         *)
(***************************************************************************)
\* a call that raised although the value of some channel that was read
\* lies above its interval
C1_Witness ==
    /\ IsControl /\ response.raised
    /\ \E i \in ChannelIndexes :
         /\ ~CurrentRaised(i)
         /\ OptMin(i) <= OptMax(i)
         /\ AboveInterval(Current(i), OptMin(i), OptMax(i))

\* a call that returned a command for a channel the payload says nothing
\* about
C5_Witness ==
    /\ Returned
    /\ \E i \in ChannelIndexes :
         Unresolvable(i) /\ CommandsOf(response.commands, i) # {}

\* a call that returned a command whose current_value lies outside the
\* channel's validity range
C6_Witness ==
    /\ Returned
    /\ \E k \in 1..Len(response.commands) :
         ~InValidityRange(SensorKeys[response.commands[k].sensor_index],
                          response.commands[k].current_value)

\* a call that raised on an entry whose value is text that is no number
C7_Witness ==
    /\ IsControl /\ response.raised
    /\ \E i \in ChannelIndexes :
         /\ FirstMatch(request.sensor_data.sensors, SensorKeys[i]) # 0
         /\ Unparsable(RawValue(request.sensor_data.sensors[
                FirstMatch(request.sensor_data.sensors, SensorKeys[i])]))

\* a call that raised in one channel and so lost the command another
\* channel gets on its own
C8_Witness ==
    /\ IsControl /\ response.raised
    /\ \E i \in ChannelIndexes :
         /\ ~CurrentRaised(i)
         /\ FirstMatch(request.sensor_data.sensors, SensorKeys[i]) # 0
         /\ ChannelPart(generate_control_commands(
                            registry, OnlyChannel(request.sensor_data, i),
                            request.farm, request.ml_trainer, TRUE).commands,
                        i) # <<>>

\* the call of the scenario, humidity 30 with optimal [50,70] and no
\* predictor, raising because of another channel's entry
C9_Witness ==
    /\ IsControl /\ response.raised
    /\ ~request.ml_trainer.present
    /\ ~CurrentRaised(1)
    /\ Current(1) = 30 * Unit
    /\ OptMin(1) = 50 * Unit /\ OptMax(1) = 70 * Unit

\* a call whose lookup raised and that returned commands
C10_Witness ==
    /\ Returned /\ LookupRaises
    /\ response.commands # <<>>

(***************************************************************************)
(* Label matching                                                          *)
(***************************************************************************)
\* the first channel, in the order soil-moisture, light, humidity,
\* temperature, whose keyword the label contains; "unknown" if none
PriorityChannel(name) ==
    IF \E t \in {"toyang", "soil", "Soil", "jindong", "vibration"} :
          \E p \in 1..Len(name) : name[p] = t
    THEN "soil_moisture"
    ELSE IF \E t \in {"chaegwang", "light", "Light", "amnyeok", "pressure"} :
          \E p \in 1..Len(name) : name[p] = t
    THEN "light"
    ELSE IF \E t \in {"seupdo", "humidity", "Humidity"} :
          \E p \in 1..Len(name) : name[p] = t
    THEN "humidity"
    ELSE IF \E t \in {"ondo", "temperature", "Temperature"} :
          \E p \in 1..Len(name) : name[p] = t
    THEN "temperature"
    ELSE "unknown"

\* the entries of the call's 'sensors' list
CallSensors == request.sensor_data.sensors

\* C11: every labelled entry of a 'sensors' payload feeds exactly one
\* channel, the first in the order soil-moisture > light > humidity >
\* temperature whose keyword its label contains, in the value-extraction
\* pass and in the per-channel command pass: the entry a channel takes its
\* reading from is an entry of that channel.  (Violated: the command pass
\* takes a label with an English soil keyword, or a light keyword other
\* than pressure, also as the humidity or the temperature reading.)
C11_LabelPriority ==
    IsControl /\ request.sensor_data.has_sensors =>
        /\ \A j \in 1..Len(CallSensors) :
              ExtractChannel(CallSensors[j].name) = PriorityChannel(CallSensors[j].name)
        /\ \A i \in ChannelIndexes :
              FirstMatch(CallSensors, SensorKeys[i]) # 0 =>
                 PriorityChannel(CallSensors[FirstMatch(CallSensors, SensorKeys[i])].name)
                    = SensorKeys[i]

\* a call that returned a humidity command whose current value is the
\* reading of an entry labelled as soil moisture
C11_Witness ==
    /\ Returned /\ request.sensor_data.has_sensors
    /\ FirstMatch(CallSensors, "humidity") # 0
    /\ PriorityChannel(CallSensors[FirstMatch(CallSensors, "humidity")].name)
          = "soil_moisture"
    /\ \E k \in CommandsOf(response.commands, 1) :
          response.commands[k].current_value
             = MatchedValue(CallSensors[FirstMatch(CallSensors, "humidity")]).v.n

(***************************************************************************)
(* Properties of the analytics.  A state with response.op = "analyze",     *)
(* "detect" or "predict" is the end of one call: request holds its         *)
(* arguments and response the result it returned.                          *)
(***************************************************************************)
\* a call of analyze_average_data that returned its statistics
Analyzed == response.op = "analyze" /\ response.success

\* the band table the call read
AnalyticsConditions == GetCropConditions(registry, request.farm)[1]

\* the channels of the analysed list that have at least one sample
SampledChannels == {k \in Channels : response.stats[k].count > 0}

\* the band satisfies the ordering invariant of the data model, with an
\* optimal band that is more than a point
ProperBand(band) ==
    /\ band.critical_min <= band.acceptable_min
    /\ band.acceptable_min <= band.optimal_min
    /\ band.optimal_min < band.optimal_max
    /\ band.optimal_max <= band.acceptable_max
    /\ band.acceptable_max <= band.critical_max

InOptimal(v, band) ==
    RatLe(RatInt(band.optimal_min), v) /\ RatLe(v, RatInt(band.optimal_max))
InAcceptable(v, band) ==
    RatLe(RatInt(band.acceptable_min), v) /\ RatLe(v, RatInt(band.acceptable_max))

\* C12 as amended: for every band with opt_min < opt_max and every value v
\* with opt_min <= v <= opt_max the optimality score of v is 1.0 and the
\* status of v is 'optimal'; for a band with opt_min = opt_max the status of
\* v = opt_min is 'optimal' and its score is 0.5.
C12_InBandOptimal ==
    Analyzed =>
        \A k \in SampledChannels :
            InOptimal(response.stats[k].average, AnalyticsConditions[k]) =>
                /\ response.stats[k].status = "choejeok"
                /\ response.stats[k].optimal_score
                     = IF AnalyticsConditions[k].optimal_min
                            < AnalyticsConditions[k].optimal_max
                       THEN <<1, 1>> ELSE <<1, 2>>

\* C12: for every band and every value v with opt_min <= v <= opt_max
\* (including bands where opt_min = opt_max), the optimality score of v is
\* 1.0 and the status of v is 'optimal'.
C12_InBandScoresOne ==
    Analyzed =>
        \A k \in SampledChannels :
            InOptimal(response.stats[k].average, AnalyticsConditions[k]) =>
                /\ response.stats[k].status = "choejeok"
                /\ response.stats[k].optimal_score = <<1, 1>>

\* an analysis whose average of some channel lies on an end of a band with
\* opt_min < opt_max, and one whose average is the single point of a band
C12_Witness ==
    /\ Analyzed
    /\ \E k \in SampledChannels :
         /\ AnalyticsConditions[k].optimal_min < AnalyticsConditions[k].optimal_max
         /\ response.stats[k].average = RatInt(AnalyticsConditions[k].optimal_min)
         /\ response.stats[k].optimal_score = <<1, 1>>

\* values a score is compared at: every whole number around the bands
Probes == -20..120

\* w lies farther from the optimal band than v on the same side
Farther(w, v, band) ==
    \/ RatLt(w, v) /\ RatLt(v, RatInt(band.optimal_min))
    \/ RatLt(v, w) /\ RatLt(RatInt(band.optimal_max), v)

ScoreAt(v, band) ==
    calculate_optimal_score(v, band.optimal_min, band.optimal_max,
                            band.acceptable_min, band.acceptable_max)

\* the three parts of C13 for the average of channel k
ScoreBounded(k, band) ==
    /\ \A w \in Probes :
          Farther(RatInt(w), response.stats[k].average, band)
             => RatLe(ScoreAt(RatInt(w), band), response.stats[k].optimal_score)
    /\ InAcceptable(response.stats[k].average, band)
         /\ ~InOptimal(response.stats[k].average, band)
         => /\ RatLe(<<6, 10>>, response.stats[k].optimal_score)
            /\ RatLt(response.stats[k].optimal_score, <<1, 1>>)
    /\ ~InAcceptable(response.stats[k].average, band)
         => /\ RatLe(<<2, 10>>, response.stats[k].optimal_score)
            /\ RatLt(response.stats[k].optimal_score, <<6, 10>>)

\* C13 as amended: for all bands that satisfy the ordering invariant with
\* opt_min < opt_max, the optimality score is monotonically non-increasing
\* as the value moves away from the optimal band on either side, a value in
\* the acceptable band but outside the optimal band scores in [0.6, 1.0),
\* and a value outside the acceptable band scores in [0.2, 0.6).
C13_ScoreOfProperBand ==
    Analyzed =>
        \A k \in SampledChannels :
            ProperBand(AnalyticsConditions[k]) => ScoreBounded(k, AnalyticsConditions[k])

\* C13: for all bands, the optimality score is monotonically non-increasing
\* as the value moves away from the optimal band on either side, a value in
\* the acceptable band but outside the optimal band scores in [0.6, 1.0),
\* and a value outside the acceptable band scores in [0.2, 0.6).
C13_ScoreOfAnyBand ==
    Analyzed =>
        \A k \in SampledChannels : ScoreBounded(k, AnalyticsConditions[k])

\* an analysis with an average outside the acceptable band of a proper
\* band, scored at the floor 0.2
C13_Witness ==
    /\ Analyzed
    /\ \E k \in SampledChannels :
         /\ ProperBand(AnalyticsConditions[k])
         /\ ~InAcceptable(response.stats[k].average, AnalyticsConditions[k])
         /\ response.stats[k].optimal_score = <<1, 5>>

\* C14: the overall score of analyze_average_data is the arithmetic mean of
\* the per-channel optimality scores taken only over channels that have at
\* least one sample; channels with no samples do not enter the mean, and if
\* no channel has samples the overall score is 0.  (Violated: a channel
\* without samples enters the mean with its score 0.)
C14_OverallMeanOfSampledChannels ==
    Analyzed =>
        /\ SampledChannels = {} => response.overall_score = <<0, 1>>
        /\ SampledChannels # {} =>
             \* the sum of the scores of the sampled channels is the overall
             \* score times their number
             RatSum([i \in 1..Len(SensorKeys) |->
                        IF SensorKeys[i] \in SampledChannels
                        THEN response.stats[SensorKeys[i]].optimal_score
                        ELSE <<0, 1>>])
               = RatMul(response.overall_score, RatInt(Cardinality(SampledChannels)))

\* an analysis of samples that hold humidity only, all in the optimal band,
\* whose overall score is not 1
C14_Witness ==
    /\ Analyzed
    /\ SampledChannels = {"humidity"}
    /\ response.stats["humidity"].optimal_score = <<1, 1>>
    /\ response.overall_score = <<1, 4>>

\* a call of detect_anomalies, and one that returned its scan
IsDetect == response.op = "detect"
Detected == IsDetect /\ response.success

\* the samples of the call that hold a reading of channel k
ValidIndexes(k) ==
    {i \in 1..Len(request.sensor_data) : request.sensor_data[i][k].kind # "none"}

Reading(k, i) == request.sensor_data[i][k].n

\* the standard deviation of the valid values of channel k is zero
ZeroStd(k) ==
    \A i, j \in ValidIndexes(k) : Reading(k, i) = Reading(k, j)

\* the positions in the returned list of the anomalies of channel k
AnomaliesOfChannel(k) ==
    {a \in 1..Len(response.anomalies) :
        response.anomalies[a].sensor = AnomalySensorName(k)}

\* C15: a channel with fewer than 3 valid (non-missing) values, or whose
\* valid values have zero standard deviation, yields no anomalies at all,
\* whatever band violations its readings contain.
C15_AnomalyPreconditions ==
    IsDetect =>
        \A k \in Channels :
            Cardinality(ValidIndexes(k)) < 3 \/ ZeroStd(k) =>
                /\ AnomaliesOfChannel(k) = {}
                /\ response.success => response.summary[k] = 0

\* a scan of three equal readings of a channel, all outside its critical
\* band, that reports nothing for the channel
C15_Witness ==
    /\ Detected
    /\ \E k \in Channels :
         /\ Cardinality(ValidIndexes(k)) >= 3
         /\ ZeroStd(k)
         /\ \A i \in ValidIndexes(k) :
               Reading(k, i) > AnalyticsConditions[k].critical_max
         /\ AnomaliesOfChannel(k) = {}

\* the z-score of reading i of channel k exceeds 2 * threshold_std:
\* with n valid values of sum S, z^2 = n * (n * v - S)^2 / sum (n * x - S)^2
ZOverTwice(k, i) ==
    /\ ~ZeroStd(k)
    /\ request.threshold_std[2] ^ 2 * Cardinality(ValidIndexes(k))
         * (Cardinality(ValidIndexes(k)) * Reading(k, i)
              - Sum(ValuesOf(request.sensor_data, k))) ^ 2
       > 4 * request.threshold_std[1] ^ 2 * Spread(ValuesOf(request.sensor_data, k))

\* reading i of channel k is in the returned list with severity 'high'
ReportedHigh(k, i) ==
    \E a \in AnomaliesOfChannel(k) :
        /\ response.anomalies[a].timestamp = request.sensor_data[i].timestamp
        /\ response.anomalies[a].value = Reading(k, i)
        /\ response.anomalies[a].severity = "nopeum"

\* C16 as amended: every reading of a channel with at least 3 valid values
\* whose z-score exceeds 2 * threshold_std is flagged as an anomaly with
\* severity 'high', whichever rule triggered it (including the 'medium'
\* optimal-band and statistical-outlier rules); it is in the returned list
\* unless the list is cut at its first 100 entries.
C16_HighZOfScannedChannel ==
    Detected =>
        \A k \in Channels :
            Cardinality(ValidIndexes(k)) >= 3 =>
                \A i \in ValidIndexes(k) :
                    ZOverTwice(k, i) =>
                        ReportedHigh(k, i) \/ response.total_anomalies > DisplayCap

\* C16: every reading whose z-score exceeds 2 * threshold_std is reported
\* as an anomaly with severity 'high', whichever rule triggered it.
C16_HighZAlwaysHigh ==
    IsDetect =>
        \A k \in Channels :
            \A i \in ValidIndexes(k) : ZOverTwice(k, i) => ReportedHigh(k, i)

\* a scan that reports a reading inside its acceptable band, flagged by a
\* 'medium' rule, with severity 'high'
C16_Witness ==
    /\ Detected
    /\ \E k \in Channels :
         \E i \in ValidIndexes(k) :
            /\ ZOverTwice(k, i)
            /\ \E a \in AnomaliesOfChannel(k) :
                  /\ response.anomalies[a].timestamp = request.sensor_data[i].timestamp
                  /\ response.anomalies[a].value = Reading(k, i)
                  /\ response.anomalies[a].reason \in {"optimal_low", "optimal_high", "outlier"}
                  /\ response.anomalies[a].severity = "nopeum"

\* the scan of the scenario: humidity readings [50,55,95,52,53], band
\* optimal [50,70], acceptable [30,80], critical [20,90], threshold_std 2.0
HumidityScenario ==
    /\ IsDetect
    /\ ValuesOf(request.sensor_data, "humidity") = <<50, 55, 95, 52, 53>>
    /\ AnalyticsConditions["humidity"] = BandOf(50, 70, 30, 80, 20, 90)
    /\ request.threshold_std = <<2, 1>>

\* the reading 95 is in the returned list with severity 'high' and reason
FlaggedHighFor(reason) ==
    \E a \in AnomaliesOfChannel("humidity") :
        /\ response.anomalies[a].value = 95
        /\ response.anomalies[a].severity = "nopeum"
        /\ response.anomalies[a].reason = reason

\* C17 as amended: for humidity readings [50,55,95,52,53] with band optimal
\* [50,70], acceptable [30,80], critical [20,90] and threshold_std = 2.0,
\* the reading 95 is flagged as an anomaly with severity 'high' and its
\* triggering rule/reason is the critical-range violation (95 > 90).
C17_ScenarioCritical == HumidityScenario => FlaggedHighFor("critical_high")

\* C17: ... the reading 95 is flagged as an anomaly with severity 'high'
\* and its triggering rule/reason is the acceptable-range violation.
C17_ScenarioAcceptable == HumidityScenario => FlaggedHighFor("acceptable_high")

\* the scan of the scenario, reporting one anomaly
C17_Witness ==
    /\ HumidityScenario
    /\ response.success
    /\ response.total_anomalies = 1

\* a call of predict_production
IsPredict == response.op = "predict"

\* the position of the separator between the date and the time of a text
SeparatorAt(timestamp) ==
    CHOOSE i \in 1..Len(timestamp) :
        /\ timestamp[i] \in {"T", " "}
        /\ \A j \in 1..(i - 1) : timestamp[j] \notin {"T", " "}

\* the calendar days the samples of the call fall on
CalendarDays ==
    {SubSeq(request.sensor_data[i].timestamp, 1,
            SeparatorAt(request.sensor_data[i].timestamp) - 1) :
        i \in 1..Len(request.sensor_data)}

\* C18: predict_production reports failure (success=false, insufficient
\* data) and produces no estimate whenever the samples aggregate into fewer
\* than 2 distinct calendar days, and produces an estimate whenever they
\* aggregate into 2 or more days.
C18_EstimateNeedsTwoDays ==
    IsPredict =>
        IF Cardinality(CalendarDays) < 2
        THEN /\ ~response.success
             /\ "message" \in response.keys
             /\ "prediction" \notin response.keys
        ELSE /\ response.success
             /\ "prediction" \in response.keys

\* several samples of one day, written with both separators, and no estimate
C18_Witness ==
    /\ IsPredict
    /\ Cardinality(CalendarDays) = 1
    /\ \E i, j \in 1..Len(request.sensor_data) :
          /\ request.sensor_data[i].timestamp[2] = "T"
          /\ request.sensor_data[j].timestamp[2] = " "
    /\ ~response.success
    /\ "prediction" \notin response.keys

\* the days of the call, and the position before the days the rolling
\* score is taken over
Days == aggregate_daily_data(request.sensor_data)
WindowStart(days) == Len(days) - Min2(7, Len(days))

\* 1.0 - (distance / range) * 0.7 for a distance <<n, d>> and a range # 0
Discount(distance, range) ==
    IF range > 0
    THEN Rat(10 * range * distance[2] - 7 * distance[1], 10 * range * distance[2])
    ELSE Rat(7 * distance[1] - 10 * range * distance[2], -10 * range * distance[2])

DistanceTo(value, lo, hi) ==
    IF RatLt(value, RatInt(lo)) THEN RatSub(RatInt(lo), value)
    ELSE RatSub(value, RatInt(hi))

Inside(value, lo, hi) == RatLe(RatInt(lo), value) /\ RatLe(value, RatInt(hi))

\* the channel score as the claim words it
ClaimedScore(value, lo, hi) ==
    IF Inside(value, lo, hi) THEN RatInt(1)
    ELSE RatMax(Rat(3, 10), Discount(DistanceTo(value, lo, hi), hi - lo))

\* the channel score with the case of a band without width
WidthAwareScore(value, lo, hi) ==
    IF Inside(value, lo, hi) THEN RatInt(1)
    ELSE IF hi - lo > 0
    THEN RatMax(Rat(3, 10), Discount(DistanceTo(value, lo, hi), hi - lo))
    ELSE Rat(1, 2)

\* the score of channel k of a day, nothing for a channel without average
ScoreTerm(Score(_, _, _), day, k, conditions) ==
    IF day[k] = NoMean THEN RatInt(0)
    ELSE Score(day[k], conditions[k].optimal_min, conditions[k].optimal_max)

\* the mean of the scores of the channels of a day that hold an average
DayScoreBy(Score(_, _, _), day, conditions) ==
    IF \A k \in Channels : day[k] = NoMean THEN Rat(1, 2)
    ELSE LET h == ScoreTerm(Score, day, "humidity", conditions)
             t == ScoreTerm(Score, day, "temperature", conditions)
             l == ScoreTerm(Score, day, "light", conditions)
             m == ScoreTerm(Score, day, "soil_moisture", conditions)
             ht == RatAdd(h, t)
             lm == RatAdd(l, m)
             total == RatAdd(ht, lm)
         IN  RatDivInt(total, Cardinality({k \in Channels : day[k] # NoMean}))

RECURSIVE DayScoreSum(_, _, _, _)
\* the sum of the day scores from day i on
DayScoreSum(Score(_, _, _), days, i, conditions) ==
    IF i > Len(days) THEN RatInt(0)
    ELSE LET first == DayScoreBy(Score, days[i], conditions)
             rest == DayScoreSum(Score, days, i + 1, conditions)
         IN  RatAdd(first, rest)

\* the mean of the day scores of the last min(7, available-days) days
RollingBy(Score(_, _, _), days, conditions) ==
    LET total == DayScoreSum(Score, days, WindowStart(days) + 1, conditions)
    IN  RatDivInt(total, Len(days) - WindowStart(days))

\* the wording of the claim gives every score of the window a value: each
\* day has a channel, and no reading lies outside a band of width zero
ClaimedScoresDefined(days, conditions) ==
    \A i \in (WindowStart(days) + 1)..Len(days) :
        /\ \E k \in Channels : days[i][k] # NoMean
        /\ \A k \in Channels :
              days[i][k] # NoMean =>
                 \/ Inside(days[i][k], conditions[k].optimal_min,
                           conditions[k].optimal_max)
                 \/ conditions[k].optimal_max # conditions[k].optimal_min

\* four daily temperature averages [18,22,26,30] with optimal [18,25]
TemperatureScenario(days, conditions) ==
    /\ Len(days) = 4
    /\ \A i \in 1..4 :
          /\ days[i].temperature = RatInt(<<18, 22, 26, 30>>[i])
          /\ \A k \in Channels \ {"temperature"} : days[i][k] = NoMean
    /\ conditions.temperature.optimal_min = 18
    /\ conditions.temperature.optimal_max = 25

\* day scores [1.0, 1.0, <1.0, <1.0], rolling score between 0.5 and 1.0
ScenarioScores(days, conditions) ==
    /\ response.success
    /\ calculate_environment_score(days[1], conditions) = RatInt(1)
    /\ calculate_environment_score(days[2], conditions) = RatInt(1)
    /\ RatLt(calculate_environment_score(days[3], conditions), RatInt(1))
    /\ RatLt(calculate_environment_score(days[4], conditions), RatInt(1))
    /\ RatLt(Rat(1, 2), response.prediction.environment_score)
    /\ RatLt(response.prediction.environment_score, RatInt(1))

\* C19 as amended: the rolling environment score is the mean of the day
\* scores of the last min(7, available-days) days in date order, each day
\* score being the mean over available channels of 1.0 inside
\* [opt_min, opt_max] and, outside, max(0.3, 1.0 - (distance / range) * 0.7)
\* when range = opt_max - opt_min > 0 and 0.5 otherwise, a day without any
\* channel scoring 0.5; for four daily temperature averages [18,22,26,30]
\* with optimal [18,25] the day scores are [1.0, 1.0, <1.0, <1.0] and the
\* rolling score is strictly between 0.5 and 1.0.
C19_RollingScoreWidthAware ==
    IsPredict /\ request.sensor_data # <<>> =>
        LET days == Days
            conditions == AnalyticsConditions
        IN  /\ response.success =>
                 response.prediction.environment_score
                    = RollingBy(WidthAwareScore, days, conditions)
            /\ TemperatureScenario(days, conditions) => ScenarioScores(days, conditions)

\* C19: the rolling environment score is the mean of the day scores of the
\* last min(7, available-days) days, each day score being the mean over
\* available channels of 1.0 inside [opt_min, opt_max] and
\* max(0.3, 1.0 - (distance / range) * 0.7) outside; with the scenario
\* [18,22,26,30].
C19_RollingScoreAsWorded ==
    IsPredict /\ request.sensor_data # <<>> =>
        LET days == Days
            conditions == AnalyticsConditions
        IN  /\ response.success /\ ClaimedScoresDefined(days, conditions) =>
                 response.prediction.environment_score
                    = RollingBy(ClaimedScore, days, conditions)
            /\ TemperatureScenario(days, conditions) => ScenarioScores(days, conditions)

\* eight days of which the oldest, outside the band, is not in the score
C19_Witness ==
    /\ IsPredict /\ response.success
    /\ Len(request.sensor_data) = 8
    /\ Len(Days) = 8
    /\ calculate_environment_score(Days[1], AnalyticsConditions) # RatInt(1)
    /\ response.prediction.environment_score = RatInt(1)

\* a call of one of the three evaluations
IsEvaluation == response.op \in {"analyze", "detect", "predict"}

\* the farm of the call names a crop the registry does not resolve
UnknownCrop ==
    /\ ~request.farm.store_fails
    /\ request.farm.crop_name.kind = "str"
    /\ StripSpaces(request.farm.crop_name.s) # <<>>
    /\ ~GetCropConditions(registry, request.farm)[3]

\* the call has the data its evaluation needs
SufficientData ==
    /\ request.sensor_data # <<>>
    /\ IsPredict => Cardinality(CalendarDays) >= 2

\* C20: an unknown crop identifier never aborts an evaluation: the lookup
\* falls back to the default band set, analyze/detect/predict still compute
\* their result with success=true, and the result flags the unresolved crop
\* to the caller (crop_exists=false plus a warning) instead of an error.
C20_UnknownCropFlagged ==
    IsEvaluation /\ UnknownCrop /\ SufficientData =>
        /\ response.success
        /\ "error" \notin response.keys
        /\ "warning" \in response.keys
        /\ "crop_exists" \in response.keys
        /\ ~response.crop_exists

\* an analysis for an unknown crop, flagged and computed on the default bands
C20_Witness ==
    /\ Analyzed /\ UnknownCrop /\ SufficientData
    /\ "warning" \in response.keys
    /\ "crop_exists" \in response.keys /\ ~response.crop_exists
    /\ AnalyticsConditions["humidity"] = BandOf(50, 70, 30, 80, 20, 90)

\* the z-score of reading i of channel k exceeds threshold_std * c2 / 2:
\* z^2 = n * (n * v - S)^2 / sum (n * x - S)^2
ZOverHalves(k, i, c2) ==
    /\ ~ZeroStd(k)
    /\ 4 * request.threshold_std[2] ^ 2 * Cardinality(ValidIndexes(k))
         * (Cardinality(ValidIndexes(k)) * Reading(k, i)
              - Sum(ValuesOf(request.sensor_data, k))) ^ 2
       > c2 ^ 2 * request.threshold_std[1] ^ 2
           * Spread(ValuesOf(request.sensor_data, k))

\* the first of the four rules that reading v of a channel matches, 0 if none
FirstRule(v, band, overT, overOneAndHalfT) ==
    IF v < band.critical_min \/ v > band.critical_max THEN 1
    ELSE IF v < band.acceptable_min \/ v > band.acceptable_max THEN 2
    ELSE IF (v < band.optimal_min \/ v > band.optimal_max) /\ overT THEN 3
    ELSE IF band.optimal_min <= v /\ v <= band.optimal_max /\ overOneAndHalfT THEN 4
    ELSE 0

\* the reason a rule gives for reading v
ReasonOf(rule, v, band) ==
    CASE rule = 1 -> IF v < band.critical_min THEN "critical_low" ELSE "critical_high"
      [] rule = 2 -> IF v < band.acceptable_min THEN "acceptable_low" ELSE "acceptable_high"
      [] rule = 3 -> IF v < band.optimal_min THEN "optimal_low" ELSE "optimal_high"
      [] OTHER -> "outlier"

\* the anomalies the returned list holds for reading i of channel k
AnomaliesOfReading(k, i) ==
    {a \in AnomaliesOfChannel(k) :
        /\ response.anomalies[a].timestamp = request.sensor_data[i].timestamp
        /\ response.anomalies[a].value = Reading(k, i)}

\* reading i of channel k is reported as the four rules say
ReportedByRule(k, i) ==
    LET v == Reading(k, i)
        band == AnalyticsConditions[k]
        rule == FirstRule(v, band, ZOverHalves(k, i, 2), ZOverHalves(k, i, 3))
    IN  IF rule = 0 THEN AnomaliesOfReading(k, i) = {}
        ELSE /\ AnomaliesOfReading(k, i) # {}
             /\ \A a \in AnomaliesOfReading(k, i) :
                   /\ response.anomalies[a].reason = ReasonOf(rule, v, band)
                   /\ response.anomalies[a].severity
                        = IF rule <= 2 \/ ZOverHalves(k, i, 4)
                          THEN "nopeum" ELSE "junggan"

\* C23 as amended: in a channel with at least 3 valid readings and a
\* non-zero standard deviation, a valid reading is flagged exactly when it
\* is (1) outside the critical band, or (2) outside the acceptable band, or
\* (3) outside the optimal band with z > threshold_std, or (4) inside the
\* optimal band with z > threshold_std * 1.5; the reported reason is that of
\* the first rule that matches in this order, rules 1-2 give severity 'high'
\* and rules 3-4 'medium' before escalation.
C23_FirstMatchOfScannedChannel ==
    Detected /\ response.total_anomalies <= DisplayCap =>
        \A k \in Channels :
            Cardinality(ValidIndexes(k)) >= 3 /\ ~ZeroStd(k) =>
                \A i \in ValidIndexes(k) : ReportedByRule(k, i)

\* C23: a valid reading is flagged exactly when one of the four rules
\* matches, with the reason of the first rule that matches; rules 1-2 give
\* severity 'high' and rules 3-4 'medium' before escalation.
C23_FirstMatchAlways ==
    Detected =>
        \A k \in Channels : \A i \in ValidIndexes(k) : ReportedByRule(k, i)

\* a scan that reports one reading as a statistical outlier of severity
\* 'medium' and leaves another reading of the channel, outside the optimal
\* band, unreported
C23_Witness ==
    /\ Detected
    /\ \E k \in Channels :
         /\ \E a \in AnomaliesOfChannel(k) :
               /\ response.anomalies[a].reason = "outlier"
               /\ response.anomalies[a].severity = "junggan"
         /\ \E i \in ValidIndexes(k) :
               /\ Reading(k, i) > AnalyticsConditions[k].optimal_max
               /\ AnomaliesOfReading(k, i) = {}

\* the ordering invariant of a band:
\* crit_min <= acc_min <= opt_min <= opt_max <= acc_max <= crit_max
OrderingInvariant(band) ==
    /\ band.critical_min <= band.acceptable_min
    /\ band.acceptable_min <= band.optimal_min
    /\ band.optimal_min <= band.optimal_max
    /\ band.optimal_max <= band.acceptable_max
    /\ band.acceptable_max <= band.critical_max

InCritical(v, band) ==
    RatLe(RatInt(band.critical_min), v) /\ RatLe(v, RatInt(band.critical_max))

\* the status of v in priority order
StatusByPriority(v, band) ==
    IF InOptimal(v, band) THEN "choejeok"
    ELSE IF InAcceptable(v, band) THEN "yangho"
    ELSE IF InCritical(v, band) THEN "juui"
    ELSE "wiheom"

StatusAt(v, band) ==
    determine_status(v, band.optimal_min, band.optimal_max,
                     band.acceptable_min, band.acceptable_max,
                     band.critical_min, band.critical_max)

\* the boundaries of a band and the whole numbers next to them
BandProbes(band) ==
    {b + d : b \in {band.optimal_min, band.optimal_max, band.acceptable_min,
                    band.acceptable_max, band.critical_min, band.critical_max},
             d \in {-1, 0, 1}}

\* C24: the status of a value is 'optimal' if inside the optimal band, else
\* 'acceptable' if inside the acceptable band, else 'warning' if inside the
\* critical band, else 'critical'; for every band that satisfies the
\* ordering invariant each value gets exactly one of the four statuses by
\* this rule.  Checked on the bands of every analysis, for the average of
\* each sampled channel and for every boundary of the band and the whole
\* numbers next to it.
C24_StatusByPriority ==
    Analyzed =>
        LET conditions == AnalyticsConditions
        IN  \A k \in Channels :
               OrderingInvariant(conditions[k]) =>
                  /\ \A v \in BandProbes(conditions[k]) :
                        StatusAt(RatInt(v), conditions[k])
                           = StatusByPriority(RatInt(v), conditions[k])
                  /\ k \in SampledChannels =>
                        response.stats[k].status
                           = StatusByPriority(response.stats[k].average, conditions[k])

\* an analysis with a channel of status 'warning' and one of status
\* 'critical', both on bands that satisfy the ordering invariant
C24_Witness ==
    /\ Analyzed
    /\ \E k, c \in SampledChannels :
          /\ OrderingInvariant(AnalyticsConditions[k])
          /\ OrderingInvariant(AnalyticsConditions[c])
          /\ response.stats[k].status = "juui"
          /\ response.stats[c].status = "wiheom"

\* the anomalies the detector finds in channel k of the call
ChannelAnomalies(k, conditions) ==
    detect_sensor_anomalies_with_optimal(k, request.sensor_data,
                                         request.threshold_std, conditions)

\* how often the record a occurs in a list
Occurrences(list, a) == Cardinality({x \in 1..Len(list) : list[x] = a})

\* the returned list holds the first entries of an ascending ordering of
\* all: it ascends, it holds nothing that all does not hold, and what it
\* leaves out is not earlier than its last entry
FirstOfAscending(listed, all) ==
    /\ \A x, y \in 1..Len(listed) :
          x < y => TextLe(listed[x].timestamp, listed[y].timestamp)
    /\ \A x \in 1..Len(all) :
          /\ Occurrences(listed, all[x]) <= Occurrences(all, all[x])
          /\ Occurrences(listed, all[x]) < Occurrences(all, all[x])
               => TextLe(listed[Len(listed)].timestamp, all[x].timestamp)
    /\ \A x \in 1..Len(listed) : Occurrences(all, listed[x]) > 0

\* C25: detect_anomalies returns the anomalies of all four channels merged
\* and sorted by timestamp ascending, the returned list being the first
\* min(100, N) entries of that ordering, while total_anomalies, the severity
\* counts and the per-channel summary counts are taken over all N anomalies.
C25_SortedCappedCountsOverAll ==
    Detected =>
        LET conditions == AnalyticsConditions
            h == ChannelAnomalies("humidity", conditions)
            t == ChannelAnomalies("temperature", conditions)
            l == ChannelAnomalies("light", conditions)
            m == ChannelAnomalies("soil_moisture", conditions)
            all == h \o t \o l \o m
            listed == response.anomalies
        IN  /\ Len(listed) = Min2(100, Len(all))
            /\ FirstOfAscending(listed, all)
            /\ response.total_anomalies = Len(all)
            /\ response.critical_count
                 = Cardinality({x \in 1..Len(all) : all[x].severity = "nopeum"})
            /\ response.warning_count
                 = Cardinality({x \in 1..Len(all) : all[x].severity = "junggan"})
            /\ response.summary
                 = [k \in Channels |->
                      CASE k = "humidity" -> Len(h) [] k = "temperature" -> Len(t)
                        [] k = "light" -> Len(l) [] OTHER -> Len(m)]

\* a scan of a history handed over newest first that finds more than 100
\* anomalies: the list holds 100 of them, the counts all of them
C25_Witness ==
    /\ Detected
    /\ Len(request.sensor_data) > 1
    /\ ~TextLe(request.sensor_data[1].timestamp, request.sensor_data[2].timestamp)
    /\ response.total_anomalies > 100
    /\ Len(response.anomalies) = 100
    /\ response.critical_count + response.warning_count > 100
    /\ response.summary["humidity"] + response.summary["temperature"]
         + response.summary["light"] + response.summary["soil_moisture"] > 100

(***************************************************************************)
(* The reading the predictor is given against the reading the channel      *)
(* pass uses                                                               *)
(***************************************************************************)
\* the feature of channel i among the four handed to predict_anomaly
\* (humidity, temperature, light, soil_moisture, lines 838-841)
FeatureOf(features, i) == features[i]

\* a call on the 'sensors' format that consulted the predictor
PredictorConsulted ==
    /\ IsControl
    /\ request.sensor_data.has_sensors
    /\ response.ml_features # <<>>

\* C28: within one call on a 'sensors' payload the value handed to the
\* predictor for a channel equals the current_value the same call uses for
\* that channel's band check and reports in its command, also with several
\* matching entries, with rawValue and value both present, and with an
\* out-of-range value.
C28_PredictorSeesCommandValue ==
    PredictorConsulted =>
        /\ \A i \in {j \in ChannelIndexes : ~CurrentRaised(j)} :
             FeatureOf(response.ml_features, i) = Current(i)
        /\ \A k \in 1..Len(response.commands) :
             FeatureOf(response.ml_features, response.commands[k].sensor_index)
                = response.commands[k].current_value

\* a call on the 'sensors' format that consulted the predictor and returned
\* a command whose current_value is the value the predictor was given
C28_Witness ==
    /\ PredictorConsulted /\ Returned
    /\ \E k \in 1..Len(response.commands) :
         FeatureOf(response.ml_features, response.commands[k].sensor_index)
            = response.commands[k].current_value

(***************************************************************************)
(* The sample store                                                        *)
(***************************************************************************)
\* the store holds at most 1000 entries
StoreBounded == Len(sensor_data_list) <= MaxStored

\* the entries are the most recently saved ones in arrival order: entry i
\* from the end was saved i saves ago, nothing in between is missing, and
\* an older entry is missing only from a full store
StoreMostRecent ==
    /\ \A i \in 1..Len(sensor_data_list) :
         sensor_data_list[i].timestamp
            = sensor_data_list[Len(sensor_data_list)].timestamp
                 - (Len(sensor_data_list) - i)
    /\ sensor_data_list # <<>> =>
         \/ sensor_data_list[1].timestamp = 1
         \/ Len(sensor_data_list) = MaxStored

\* no two stored entries have the same id
StoreIdsUnique ==
    Cardinality({sensor_data_list[i].id : i \in 1..Len(sensor_data_list)})
        = Len(sensor_data_list)

\* C30: in memory mode, after any sequence of save_sensor_data calls the
\* store holds at most 1000 entries, they are the most recently saved ones
\* in arrival order, and no two stored entries have the same id.
C30_BoundedRecentUniqueIds ==
    /\ StoreBounded
    /\ StoreMostRecent
    /\ StoreIdsUnique

\* the part of C30 that the store keeps: size and recency
C30_BoundedRecent == StoreBounded /\ StoreMostRecent

\* a full store that has dropped its oldest entry
C30_Witness ==
    /\ Len(sensor_data_list) = MaxStored
    /\ sensor_data_list[1].timestamp > 1

(***************************************************************************)
(* The predictor                                                           *)
(***************************************************************************)
\* the scaler and both models are present
Complete(t) ==
    t.scaler.present /\ t.anomaly_classifier.present /\ t.condition_predictor.present

\* the call that just returned is a prediction of the trainer
Predicted == response.op \in {"predict_anomaly", "predict_condition_score"}

\* C29: after any sequence of MLTrainer construction, load_models and
\* train_models, is_trained = true implies that the scaler, the anomaly
\* classifier and the condition predictor are all present, so
\* predict_anomaly and predict_condition_score never raise.
C29_TrainedMeansComplete ==
    /\ trainer.is_trained => Complete(trainer)
    /\ Predicted => ~response.raised

\* a trainer that load_models marked as trained from a complete directory
\* and that answered a prediction
C29_Witness ==
    /\ training = Settled(0, "none")
    /\ trainer.is_trained /\ Complete(trainer)
    /\ Predicted /\ ~response.raised /\ response.result.success

\* the call that just returned handed features to predict_anomaly of the
\* application's trainer, which did not answer "not trained"
Consulted ==
    \/ /\ response.op = "predict_anomaly"
       /\ response.raised \/ response.result.success
    \/ /\ IsControl
       /\ request.ml_trainer.is_trained
       /\ request.ml_trainer.raises \/ GetOr(request.ml_trainer.result, "success", FALSE)

\* a scaler and a classifier of one train_models call (or of one saved
\* directory), both fitted
Coherent(observed) ==
    /\ Usable(observed.scaler)
    /\ Usable(observed.anomaly_classifier)
    /\ observed.scaler.run = observed.anomaly_classifier.run

\* C27: retraining replaces the predictor atomically: a
\* generate_control_commands or predict_anomaly call interleaved with
\* train_models computes with the complete old model or the complete new
\* one, never with a new scaler and the old classifier or with an unfitted
\* classifier.  Stated for the calls that found a scaler and a classifier.
C27_AtomicReplacement ==
    (/\ Consulted
     /\ response.observed.scaler.present
     /\ response.observed.anomaly_classifier.present)
        => Coherent(response.observed)

\* a prediction served after a retraining has replaced the scaler and the
\* classifier, computed with the new pair
C27_Witness ==
    /\ Consulted
    /\ Coherent(response.observed)
    /\ response.observed.scaler.run = MaxRuns

\* the keys of a result dict
Keys(result) == DOMAIN result

\* C22: predict_anomaly, when trained, returns a record with is_anomaly (a
\* boolean) and confidence (a number in [0, 1]), and this confidence is the
\* one the control generator uses for the magnitude fusion.
C22_ConfidenceReported ==
    /\ (response.op = "predict_anomaly" /\ ~response.raised /\ response.result.success) =>
           /\ "is_anomaly" \in Keys(response.result)
           /\ response.result.is_anomaly \in BOOLEAN
           /\ "confidence" \in Keys(response.result)
           /\ response.result.confidence \in 0..100
    /\ (Returned /\ Consulted /\ ~request.ml_trainer.raises) =>
           /\ "confidence" \in Keys(request.ml_trainer.result)
           /\ \A k \in 1..Len(response.commands) :
                response.commands[k].ml_confidence = request.ml_trainer.result.confidence

\* a trained predictor answered with a boolean is_anomaly, and a control
\* call that consulted it returned a command
C22_Witness ==
    \/ /\ response.op = "predict_anomaly" /\ ~response.raised
       /\ response.result.success
       /\ response.result.is_anomaly \in BOOLEAN
    \/ /\ Returned /\ Consulted /\ ~request.ml_trainer.raises
       /\ response.commands # <<>>

(***************************************************************************)
(* The registry under concurrent registration                              *)
(***************************************************************************)
\* C26: the registry is append-only under any sequence or interleaving of
\* add-crop requests: a step that changes the table appends one entry under
\* a name the table did not hold (a duplicate name, the default entry's
\* included, is rejected), and no entry once registered is replaced or
\* modified by a later or concurrent add.
C26_AppendOnly ==
    [][registry' # registry =>
         /\ Len(registry') = Len(registry) + 1
         /\ SubSeq(registry', 1, Len(registry)) = registry
         /\ registry'[Len(registry')].name \notin RegistryNames(registry)]_vars

\* two threads have both answered 201 for the same name
C26_Witness ==
    \E t \in Threads : \E u \in Threads \ {t} :
        /\ handlers[t].pc = "reply" /\ handlers[t].status = 201
        /\ handlers[u].pc = "reply" /\ handlers[u].status = 201
        /\ StripSpaces(handlers[t].data.name) = StripSpaces(handlers[u].data.name)

(***************************************************************************)
(* The evaluations are stateless                                           *)
(***************************************************************************)
\* the call that just returned is an evaluation
Evaluated == response.op \in {"analyze", "detect", "predict", "control"}

\* the results generate_control_commands can return for the arguments in
\* request on the table in registry
Recomputed ==
    Outcomes(registry,
             generate_control_commands(registry, request.sensor_data, request.farm,
                                       request.ml_trainer, TRUE),
             request.sensor_data, request.farm, request.ml_trainer)

=============================================================================
